---- MODULE Spec2Model ----
(***************************************************************************)
(* A model of the request-handling runtime of hydrooj's service/server.ts: *)
(* the HTTP dispatcher handle(), the guard composer Checker, the Handler   *)
(* error recovery and finish path, and the parameter descriptor builder    *)
(* with its binder.                                                        *)
(*                                                                         *)
(* Strings whose characters the code inspects (HTTP verbs, operation and   *)
(* method names) are sequences of one-character strings, so toLowerCase    *)
(* and the snake_case -> CamelCase replace are computed, not assumed.      *)
(***************************************************************************)
EXTENDS Integers, Sequences, FiniteSets, TLC

(***************************************************************************)
(* Characters and names                                                    *)
(***************************************************************************)
LowerAlphabet ==
    << "a", "b", "c", "d", "e", "f", "g", "h", "i", "j", "k", "l", "m",
       "n", "o", "p", "q", "r", "s", "t", "u", "v", "w", "x", "y", "z" >>

UpperAlphabet ==
    << "A", "B", "C", "D", "E", "F", "G", "H", "I", "J", "K", "L", "M",
       "N", "O", "P", "Q", "R", "S", "T", "U", "V", "W", "X", "Y", "Z" >>

IsLower(c) == \E i \in 1..Len(LowerAlphabet) : LowerAlphabet[i] = c

IsUpper(c) == \E i \in 1..Len(UpperAlphabet) : UpperAlphabet[i] = c

\* String.prototype.toUpperCase on one character
toUpperCase(c) ==
    IF IsLower(c)
    THEN UpperAlphabet[CHOOSE i \in 1..Len(LowerAlphabet) : LowerAlphabet[i] = c]
    ELSE c

\* String.prototype.toLowerCase on a string
toLowerCase(s) ==
    [i \in 1..Len(s) |->
        IF IsUpper(s[i])
        THEN LowerAlphabet[CHOOSE k \in 1..Len(UpperAlphabet) : UpperAlphabet[k] = s[i]]
        ELSE s[i]]

\* s.replace(/_([a-z])/gm, (m) => m[1].toUpperCase()), scanning from index i
RECURSIVE ReplaceFrom(_, _)
ReplaceFrom(s, i) ==
    IF i > Len(s) THEN << >>
    ELSE IF s[i] = "_" /\ i < Len(s) /\ IsLower(s[i + 1])
         THEN << toUpperCase(s[i + 1]) >> \o ReplaceFrom(s, i + 2)
         ELSE << s[i] >> \o ReplaceFrom(s, i + 1)

\* mutant: the replace drops the underscores without upper-casing
CamelOperation_keepsCase(op) == SelectSeq(op, LAMBDA c : c # "_")

\* `_${ctx.request.body.operation}`.replace(...)
CamelOperation(op) == ReplaceFrom(<< "_" >> \o op, 1)

\* HTTP verbs as they arrive in ctx.method
GET == << "G", "E", "T" >>

POST == << "P", "O", "S", "T" >>

\* names of handler members the dispatcher looks up
N_get == << "g", "e", "t" >>

N_post == << "p", "o", "s", "t" >>

N_all == << "a", "l", "l" >>

N__prepare == << "_", "p", "r", "e", "p", "a", "r", "e" >>

N_prepare == << "p", "r", "e", "p", "a", "r", "e" >>

N_cleanup == << "c", "l", "e", "a", "n", "u", "p" >>

N_postAddReply == << "p", "o", "s", "t", "A", "d", "d", "R", "e", "p", "l", "y" >>

\* the operation named by a request body
add_reply == << "a", "d", "d", "_", "r", "e", "p", "l", "y" >>

\* body.operation absent (or the empty string): falsy
NoOperation == << >>

\* members a concrete handler class may define on top of Handler
MemberNames ==
    { N__prepare, N_prepare, N_get, N_post, N_postAddReply, N_all, N_cleanup }

(***************************************************************************)
(* Errors                                                                  *)
(***************************************************************************)
NoError == "none"

\* a thrown value that is not an object (throw null, throw 'text')
ThrownPrimitive == "null"

\* subclasses of UserFacingError (declared in ../error)
UserFacingErrors ==
    { "ValidationError", "PermissionError", "PrivilegeError",
      "InvalidOperationError", "MethodNotAllowedError", "NotFoundError",
      "BlacklistedError", "CsrfTokenError", "UserNotFoundError" }

\* error.code of a user-facing error: a stable code of its class
UserFacingCode(e) ==
    CASE e = "ValidationError" -> 400
      [] e = "NotFoundError" -> 404
      [] e = "UserNotFoundError" -> 404
      [] e = "MethodNotAllowedError" -> 405
      [] OTHER -> 403

\* error instanceof UserFacingError ? error.code : 500
ErrorStatus(e) == IF e \in UserFacingErrors THEN UserFacingCode(e) ELSE 500

\* what init can reject with
InitErrors == { "BlacklistedError", "NotFoundError", "Error" }

\* what a hook or a method body can throw: a binder failure, an unexpected
\* error, or a value that is no object
HookErrors == { "ValidationError", "Error", ThrownPrimitive }

\* what saveCookie's store call can reject with
StoreErrors == { "Error" }

(***************************************************************************)
(* Checker: composing the guard from the registration fragments            *)
(***************************************************************************)
\* the fragments a registration passes, by what typeof makes of them:
\*   fn_pass, fn_throw  typeof 'function' (a zero-argument predicate that
\*                      returns, or that throws PermissionError)
\*   callobj            typeof 'object' with a defined .call property
\*   numarr, bigarr     typeof 'object', item[0] a number / a bigint
\*   number, bigint     a nonzero privilege / permission bitmask
FragmentKinds ==
    { "fn_pass", "fn_throw", "callobj", "numarr", "bigarr", "number", "bigint" }

MaxFragments == 2

RECURSIVE SeqsUpTo(_, _)
SeqsUpTo(S, n) ==
    IF n = 0 THEN { << >> }
    ELSE LET shorter == SeqsUpTo(S, n - 1)
         IN  shorter \cup { Append(s, x) : s \in shorter, x \in S }

FragmentLists == SeqsUpTo(FragmentKinds, MaxFragments)

\* let perm; let priv; let checker = () => { };
EmptyGuard == [checker |-> "noop", perm |-> "unset", priv |-> "unset"]

\* one iteration of `for (const item of permPrivChecker)`
CheckerItem(g, item) ==
    IF item \in { "callobj", "numarr", "bigarr" }
    THEN \* typeof item === 'object'
         IF item = "callobj" THEN [g EXCEPT !.checker = "callobj"]
         ELSE IF item = "numarr" THEN [g EXCEPT !.priv = "set"]
         ELSE [g EXCEPT !.perm = "set"]
    ELSE IF item = "number" THEN [g EXCEPT !.priv = "set"]
    ELSE IF item = "bigint" THEN [g EXCEPT !.perm = "set"]
    ELSE g  \* typeof 'function' matches no branch

RECURSIVE CheckerFrom(_, _, _)
CheckerFrom(g, frags, i) ==
    IF i > Len(frags) THEN g
    ELSE CheckerFrom(CheckerItem(g, frags[i]), frags, i + 1)

\* Checker(permPrivChecker): the closure check() captures
Checker(frags) == CheckerFrom(EmptyGuard, frags, 1)

\* the predicate function the registration passed (the last one), if any
RegisteredPredicate(frags) ==
    LET idx == { i \in 1..Len(frags) : frags[i] \in { "fn_pass", "fn_throw" } }
    IN  IF idx = {} THEN "none"
        ELSE frags[CHOOSE i \in idx : \A j \in idx : j <= i]

\* mutant: the privilege check runs before the permission check
check_privFirst(g, hasPerm, hasPriv) ==
    LET predRan == IF g.checker = "noop" THEN << >> ELSE << "predicate" >>
    IN  IF g.checker = "callobj"
        THEN [evaluated |-> predRan, error |-> "TypeError"]
        ELSE IF g.priv = "set" /\ ~hasPriv
        THEN [evaluated |-> predRan \o << "priv" >>, error |-> "PrivilegeError"]
        ELSE LET afterPriv ==
                     predRan \o (IF g.priv = "set" THEN << "priv" >> ELSE << >>)
             IN  IF g.perm = "set" /\ ~hasPerm
                 THEN [evaluated |-> afterPriv \o << "perm" >>,
                       error |-> "PermissionError"]
                 ELSE [evaluated |->
                           afterPriv \o (IF g.perm = "set" THEN << "perm" >> ELSE << >>),
                       error |-> NoError]

\* check(): checker(); if (perm) this.checkPerm(perm); if (priv) this.checkPriv(priv);
\* hasPerm/hasPriv are the user's answers. The result lists the checks that
\* were evaluated, in order, and the error thrown.
check(g, hasPerm, hasPriv) ==
    LET predRan == IF g.checker = "noop" THEN << >> ELSE << "predicate" >>
        predErr == CASE g.checker = "callobj" -> "TypeError"
                     [] g.checker = "fn_throw" -> "PermissionError"
                     [] OTHER -> NoError
    IN  IF predErr # NoError
        THEN [evaluated |-> predRan, error |-> predErr]
        ELSE IF g.perm = "set" /\ ~hasPerm
        THEN [evaluated |-> predRan \o << "perm" >>, error |-> "PermissionError"]
        ELSE LET afterPerm ==
                     predRan \o (IF g.perm = "set" THEN << "perm" >> ELSE << >>)
             IN  IF g.priv = "set" /\ ~hasPriv
                 THEN [evaluated |-> afterPerm \o << "priv" >>,
                       error |-> "PrivilegeError"]
                 ELSE [evaluated |->
                           afterPerm \o (IF g.priv = "set" THEN << "priv" >> ELSE << >>),
                       error |-> NoError]

(***************************************************************************)
(* Handler: response, finish, onerror                                      *)
(***************************************************************************)
\* this.response as the Handler constructor leaves it (status null is 0,
\* template/redirect null is "", body {} is "{}")
NewResponse ==
    [body |-> "{}", type |-> "", status |-> 0, template |-> "",
     redirect |-> "", code |-> 0]

\* ctx.response before anything is written: Koa answers 404 with no body
NewCtxResponse == [body |-> "unset", status |-> 404, type |-> ""]

\* JavaScript truthiness of a response body
Truthy(body) == body \notin { "null", "" }

\* what a method body leaves in this.response
BodyEffects == { "none", "template" }

\* this.response.attachment(name, streamOrBuffer): this.response.body = null
attachment(r) == [r EXCEPT !.body = "null"]

\* ... and ctx.attachment(name); ctx.body = streamOrBuffer (assigning
\* ctx.body makes the status 200 unless one was set)
ctxAttachment(c) == [c EXCEPT !.body = "file", !.status = 200]

\* this.response.body = { did }; this.response.redirect = this.url(...)
redirect(r) == [r EXCEPT !.body = "data", !.redirect = "/url"]

ApplyBodyEffect(r, eff) ==
    IF eff = "template"
    THEN [r EXCEPT !.template = "page.html", !.body = "data"]
    ELSE IF eff = "attachment" THEN attachment(r)
    ELSE IF eff = "redirect" THEN redirect(r)
    ELSE r

\* what the body of a primary method may do: also send a file, or ask for
\* a redirect
MethodEffects == BodyEffects \cup { "attachment", "redirect" }

ApplyCtxEffect(c, eff) == IF eff = "attachment" THEN ctxAttachment(c) ELSE c

\* mutant: the template query parameter does not override the template
renderBody_ignoresQuery(r, req, userResolved, renderThrows) ==
    LET r1 == IF r.redirect # ""
              THEN [r EXCEPT !.body = IF Truthy(r.body) THEN r.body ELSE "{}"]
              ELSE r
    IN  IF r1.type # ""
        THEN [response |-> r1, threw |-> FALSE, rendered |-> ""]
        ELSE IF req.json \/ r1.redirect # "" \/ req.noTemplate \/ r1.template = ""
        THEN [response |-> [r1 EXCEPT !.body = "json", !.type = "application/json"],
              threw |-> FALSE, rendered |-> ""]
        ELSE IF renderThrows \/ ~userResolved
        THEN [response |-> r1, threw |-> TRUE, rendered |-> r1.template]
        ELSE [response |-> [r1 EXCEPT !.body = "html", !.type = "text/html"],
              threw |-> FALSE, rendered |-> r1.template]

\* Handler.renderBody. renderThrows: the template engine rejects; rendering
\* also throws when this.user is not resolved (renderHTML reads this.user.gravatar).
\* req is what it reads of the request: request.json, query.noTemplate
\* and query.template ("" when not given). rendered names the template
\* handed to render ("" when none was).
renderBody(r, req, userResolved, renderThrows) ==
    LET r1 == IF r.redirect # ""
              THEN [r EXCEPT !.body = IF Truthy(r.body) THEN r.body ELSE "{}"]
              ELSE r
        templateName == IF req.template # "" THEN req.template ELSE r1.template
    IN  IF r1.type # ""
        THEN [response |-> r1, threw |-> FALSE, rendered |-> ""]
        ELSE IF req.json \/ r1.redirect # "" \/ req.noTemplate \/ r1.template = ""
        THEN [response |-> [r1 EXCEPT !.body = "json", !.type = "application/json"],
              threw |-> FALSE, rendered |-> ""]
        ELSE IF renderThrows \/ ~userResolved
        THEN [response |-> r1, threw |-> TRUE, rendered |-> templateName]
        ELSE [response |-> [r1 EXCEPT !.body = "html", !.type = "text/html"],
              threw |-> FALSE, rendered |-> templateName]

\* a request without the noTemplate and template query parameters
PlainRequest(json) == [json |-> json, noTemplate |-> FALSE, template |-> ""]

\* the catch block of Handler.finish: an error from renderBody is handled here
finishCatch(r, json, userResolved, errRenderThrows) ==
    LET r1 == [r EXCEPT !.status = ErrorStatus("Error")]
    IN  IF json THEN [r1 EXCEPT !.body = "error"]
        ELSE IF errRenderThrows \/ ~userResolved THEN r1
        ELSE [r1 EXCEPT !.body = "html", !.type = "text/html"]

\* Handler.putResponse
putResponse(r, c, json) ==
    IF ~Truthy(r.body) THEN c
    ELSE IF r.redirect # "" /\ ~json
    THEN [c EXCEPT !.type = "application/octet-stream", !.status = 302]
    ELSE [c EXCEPT !.body = r.body,
                   !.status = IF r.status # 0 THEN r.status ELSE 200,
                   !.type = IF json THEN "application/json"
                            ELSE IF r.type # "" THEN r.type ELSE c.type]

\* Handler.finish: the response after it, what reached ctx, whether the sid
\* cookie was emitted, and whether finish rejected (saveCookie's store call)
finish(r, c, json, userResolved, renderThrows, errRenderThrows, saveThrows) ==
    IF ~Truthy(r.body)
    THEN [response |-> r, ctx |-> c, cookie |-> FALSE, threw |-> FALSE,
          renderCaught |-> FALSE]
    ELSE LET rb == renderBody(r, PlainRequest(json), userResolved, renderThrows)
             r2 == IF rb.threw
                   THEN finishCatch(rb.response, json, userResolved, errRenderThrows)
                   ELSE rb.response
         IN  [response |-> r2, ctx |-> putResponse(r2, c, json),
              cookie |-> ~saveThrows, threw |-> saveThrows,
              renderCaught |-> rb.threw]

\* the part of Handler.onerror before finish: throws on a thrown value that
\* has no properties to read or assign (error.msg)
onerrorThrows(e) == e = ThrownPrimitive

onerrorResponse(r, e) ==
    [r EXCEPT !.status = ErrorStatus(e),
              !.template = IF e \in UserFacingErrors THEN "error.html" ELSE "bsod.html",
              !.body = "error"]

(***************************************************************************)
(* JavaScript values of request fields and bound arguments                 *)
(***************************************************************************)
Undefined == [t |-> "undefined", s |-> << >>, n |-> 0]

NaN == [t |-> "NaN", s |-> << >>, n |-> 0]

Str(chars) == [t |-> "string", s |-> chars, n |-> 0]

Num(k) == [t |-> "number", s |-> << >>, n |-> k]

Bool(b) == [t |-> "boolean", s |-> << >>, n |-> IF b THEN 1 ELSE 0]

\* !value
Falsy(v) ==
    \/ v.t \in { "undefined", "NaN" }
    \/ v.t = "string" /\ v.s = << >>
    \/ v.t \in { "number", "boolean" } /\ v.n = 0

Digits == << "0", "1", "2", "3", "4", "5", "6", "7", "8", "9" >>

IsDigit(c) == \E i \in 1..Len(Digits) : Digits[i] = c

DigitValue(c) == (CHOOSE i \in 1..Len(Digits) : Digits[i] = c) - 1

\* the value of the longest run of digits of s that starts at index i,
\* continuing the accumulated value acc
RECURSIVE DigitsFrom(_, _, _)
DigitsFrom(s, i, acc) ==
    IF i > Len(s) \/ ~IsDigit(s[i]) THEN acc
    ELSE DigitsFrom(s, i + 1, acc * 10 + DigitValue(s[i]))

\* the run of digits of s that starts at index i
RECURSIVE DigitRun(_, _)
DigitRun(s, i) ==
    IF i > Len(s) \/ ~IsDigit(s[i]) THEN << >>
    ELSE << s[i] >> \o DigitRun(s, i + 1)

RECURSIVE StripLeadingZeros(_)
StripLeadingZeros(d) ==
    IF Len(d) > 1 /\ d[1] = "0" THEN StripLeadingZeros(Tail(d)) ELSE d

RECURSIVE StripTrailingZeros(_)
StripTrailingZeros(d) ==
    IF d # << >> /\ d[Len(d)] = "0"
    THEN StripTrailingZeros(SubSeq(d, 1, Len(d) - 1))
    ELSE d

\* a number that is not kept as a small integer (a long integer, a
\* fraction, an infinity): its sign in n and its decimal text in s
Double(sign, text) == [t |-> "double", s |-> text, n |-> sign]

Infinity == << "I", "n", "f", "i", "n", "i", "t", "y" >>

\* the integer with the decimal digits d (without leading zeros)
Integer(neg, d) ==
    IF Len(d) <= 9
    THEN Num(IF neg THEN 0 - DigitsFrom(d, 1, 0) ELSE DigitsFrom(d, 1, 0))
    ELSE Double(IF neg THEN 0 - 1 ELSE 1, d)

\* parseInt(v, 10) of a string: an optional sign, then the leading digits;
\* NaN when there is none
parseInt(v) ==
    IF v.t = "number" THEN v
    ELSE IF v.t # "string" THEN NaN
    ELSE LET signed == v.s # << >> /\ v.s[1] \in { "-", "+" }
             first == IF signed THEN 2 ELSE 1
         IN  IF first > Len(v.s) \/ ~IsDigit(v.s[first]) THEN NaN
             ELSE Integer(signed /\ v.s[1] = "-",
                          StripLeadingZeros(DigitRun(v.s, first)))

\* parseFloat(v) of a string written without an exponent: an optional
\* sign, then Infinity or digits with an optional fraction; NaN otherwise
parseFloat(v) ==
    IF v.t = "number" THEN v
    ELSE IF v.t # "string" THEN NaN
    ELSE LET signed == v.s # << >> /\ v.s[1] \in { "-", "+" }
             neg == signed /\ v.s[1] = "-"
             first == IF signed THEN 2 ELSE 1
             int == DigitRun(v.s, first)
             dot == first + Len(int)
             frac == IF dot <= Len(v.s) /\ v.s[dot] = "."
                     THEN DigitRun(v.s, dot + 1) ELSE << >>
             f == StripTrailingZeros(frac)
             i == StripLeadingZeros(IF int = << >> THEN << "0" >> ELSE int)
         IN  IF /\ Len(v.s) >= first + Len(Infinity) - 1
                /\ SubSeq(v.s, first, first + Len(Infinity) - 1) = Infinity
             THEN Double(IF neg THEN 0 - 1 ELSE 1, Infinity)
             ELSE IF int = << >> /\ frac = << >> THEN NaN
             ELSE IF f = << >> THEN Integer(neg, i)
             ELSE Double(IF neg THEN 0 - 1 ELSE 1, i \o << "." >> \o f)

\* Number.isNaN, Number.isFinite
isNaN(k) == k.t = "NaN"

isFinite(k) == k.t = "number" \/ (k.t = "double" /\ k.s # Infinity)

\* Number.MAX_SAFE_INTEGER, 2^53 - 1
MAX_SAFE_INTEGER ==
    << "9", "0", "0", "7", "1", "9", "9", "2", "5", "4", "7", "4", "0", "9",
       "9", "1" >>

\* a <= b for digit strings without leading zeros
DigitsLeq(a, b) ==
    \/ Len(a) < Len(b)
    \/ /\ Len(a) = Len(b)
       /\ \/ a = b
          \/ \E i \in 1..Len(a) :
                /\ \A j \in 1..(i - 1) : a[j] = b[j]
                /\ DigitValue(a[i]) < DigitValue(b[i])

\* Number.isSafeInteger
isSafeInteger(k) ==
    \/ k.t = "number"
    \/ /\ k.t = "double"
       /\ \A i \in 1..Len(k.s) : IsDigit(k.s[i])
       /\ DigitsLeq(k.s, MAX_SAFE_INTEGER)

(***************************************************************************)
(* Types, _buildParam, _descriptor: the parameter descriptors              *)
(***************************************************************************)
\* Types.X as [convert, validate, isOptional]; "none" is null
Types(T) ==
    CASE T = "String" ->
             [convert |-> "toString", validate |-> "none", isOptional |-> FALSE]
      [] T = "Int" ->
             [convert |-> "parseInt", validate |-> "isSafeInteger",
              isOptional |-> FALSE]
      [] T = "UnsignedInt" ->
             [convert |-> "parseInt", validate |-> "nonNegative",
              isOptional |-> FALSE]
      [] T = "PositiveInt" ->
             [convert |-> "parseInt", validate |-> "positive", isOptional |-> FALSE]
      [] T = "Float" ->
             [convert |-> "parseFloat", validate |-> "float", isOptional |-> FALSE]
      [] T = "Boolean" ->
             [convert |-> "toBoolean", validate |-> "none", isOptional |-> TRUE]

\* the decimal digits of a natural number, most significant first
RECURSIVE NaturalDigits(_)
NaturalDigits(k) ==
    IF k < 10 THEN << Digits[k + 1] >>
    ELSE Append(NaturalDigits(k \div 10), Digits[(k % 10) + 1])

\* v.toString() of a string, a number or a boolean
toString(v) ==
    CASE v.t = "string" -> v
      [] v.t = "number" ->
             Str(IF v.n < 0 THEN << "-" >> \o NaturalDigits(0 - v.n)
                 ELSE NaturalDigits(v.n))
      [] v.t = "boolean" ->
             Str(IF v.n = 1 THEN << "t", "r", "u", "e" >>
                 ELSE << "f", "a", "l", "s", "e" >>)
      [] OTHER -> v

\* item.convert(value)
Convert(c, v) ==
    CASE c = "toString" -> toString(v)
      [] c = "parseInt" -> parseInt(v)
      [] c = "parseFloat" -> parseFloat(v)
      [] c = "toBoolean" -> Bool(~Falsy(v))

\* mutant: PositiveInt accepts what UnsignedInt accepts
Validate_zeroIsPositive(f, v) ==
    CASE f = "positive" ->
             LET k == parseInt(v) IN k.t \in { "number", "double" } /\ k.n >= 0
      [] f = "nonNegative" ->
             LET k == parseInt(v) IN k.t \in { "number", "double" } /\ k.n >= 0
      [] f = "isSafeInteger" -> isSafeInteger(parseInt(v))
      [] f = "float" ->
             LET t == parseFloat(v) IN ~Falsy(t) /\ ~isNaN(t) /\ isFinite(t)

\* item.validate(value): the truthiness of what the validator returns (a
\* comparison with NaN is false; n holds the value of a small integer and
\* the sign of any other number)
Validate(f, v) ==
    CASE f = "positive" ->
             LET k == parseInt(v) IN k.t \in { "number", "double" } /\ k.n > 0
      [] f = "nonNegative" ->
             LET k == parseInt(v) IN k.t \in { "number", "double" } /\ k.n >= 0
      [] f = "isSafeInteger" -> isSafeInteger(parseInt(v))
      [] f = "float" ->
             LET t == parseFloat(v) IN ~Falsy(t) /\ ~isNaN(t) /\ isFinite(t)

\* the literals of a Range given as an array, or the keys of one given as
\* an object
ArrayRange(items) == [array |-> TRUE, items |-> items, keys |-> {}]

ObjectRange(keys) == [array |-> FALSE, items |-> << >>, keys |-> keys]

\* Types.Range(range)[0]: the loop over the literals from index i on
RECURSIVE RangeConvertFrom(_, _, _)
RangeConvertFrom(items, i, v) ==
    IF i > Len(items) THEN v
    ELSE IF items[i].t = "number"
    THEN IF items[i] = parseInt(v) THEN parseInt(v)
         ELSE RangeConvertFrom(items, i + 1, v)
    ELSE IF items[i] = v THEN v
    ELSE RangeConvertFrom(items, i + 1, v)

\* mutant: a match of a numeric literal returns the input as it is
RangeConvert_noCoercion(range, v) == v

\* Types.Range(range)[0]
RangeConvert(range, v) ==
    IF range.array THEN RangeConvertFrom(range.items, 1, v) ELSE v

\* Types.Range(range)[1]
RangeValidate(range, v) ==
    IF range.array
    THEN \E i \in 1..Len(range.items) :
            \/ range.items[i].t = "string" /\ range.items[i] = v
            \/ range.items[i].t = "number" /\ range.items[i] = parseInt(v)
    ELSE \E key \in range.keys : key = v

\* the arguments of a declaration after the field name: a Types entry or a
\* boolean
TypeArg(T) == [kind |-> "type", type |-> T, value |-> FALSE]

BoolArg(b) == [kind |-> "boolean", type |-> "", value |-> b]

RECURSIVE BuildFrom(_, _, _)
BuildFrom(v, args, cursor) ==
    IF cursor > Len(args) THEN v
    ELSE LET current == args[cursor]
             type == Types(current.type)
             next ==
                 IF current.kind = "type"
                 THEN [v EXCEPT
                          !.convert = IF type.convert # "none"
                                      THEN type.convert ELSE @,
                          !.validate = IF type.validate # "none"
                                       THEN type.validate ELSE @,
                          !.isOptional = IF type.isOptional THEN TRUE ELSE @]
                 ELSE [v EXCEPT !.isOptional = current.value]
         IN  BuildFrom(next, args, cursor + 1)

\* _buildParam(name, source, ...args): the ParamOption of a declaration
_buildParam(name, source, args) ==
    BuildFrom([name |-> name, source |-> source, isOptional |-> FALSE,
               convert |-> "none", validate |-> "none"], args, 1)

\* the decorators get, post, route, param
DecoratorSource(deco) ==
    CASE deco = "get" -> "get"
      [] deco = "post" -> "post"
      [] deco = "route" -> "route"
      [] deco = "param" -> "all"

Declare(deco, name, args) == _buildParam(name, DecoratorSource(deco), args)

\* { name: 'domainId', type: 'string', source: 'route' }
DomainIdDescriptor ==
    [name |-> "domainId", source |-> "route", isOptional |-> FALSE,
     convert |-> "none", validate |-> "none"]

\* declarations the modelled classes are written with
\* @param('type', Types.String, true)
D_type == Declare("param", "type", << TypeArg("String"), BoolArg(TRUE) >>)

\* @param('name', Types.String)
D_name == Declare("param", "name", << TypeArg("String") >>)

\* @param('page', Types.PositiveInt, true)
D_page == Declare("param", "page", << TypeArg("PositiveInt"), BoolArg(TRUE) >>)

Declarations == { D_type, D_name, D_page }

\* @param('cookie', Types.String) of ConnectionHandler.init
D_cookie == Declare("param", "cookie", << TypeArg("String") >>)

\* (target.constructor.name, funcName) of the decorated methods
K_prepare == << "DiscussionHandler", "_prepare" >>

K_get == << "DiscussionNodeHandler", "get" >>

MethodKeys == { K_prepare, K_get }

\* decorators written over all methods together
MaxDeclarations == 3

Fields == { "domainId", "type", "name", "page", "cookie" }

NoFields == [f \in Fields |-> Undefined]

\* { ...a, ...b }
Spread(a, b) == [f \in Fields |-> IF b[f] # Undefined THEN b[f] ELSE a[f]]

\* requests a bound method is called for: ctx.params, ctx.query, ctx.request.body
Requests ==
    { \* GET /discuss/node/7?page=2
      [params |-> [NoFields EXCEPT !["type"] = Str(<< "n" >>),
                                   !["name"] = Str(<< "7" >>)],
       query |-> [NoFields EXCEPT !["page"] = Str(<< "2" >>)],
       body |-> NoFields],
      \* GET /d/d1/discuss/node/7
      [params |-> [NoFields EXCEPT !["domainId"] = Str(<< "d", "1" >>),
                                   !["type"] = Str(<< "n" >>),
                                   !["name"] = Str(<< "7" >>)],
       query |-> NoFields,
       body |-> NoFields],
      \* GET /discuss/node/7?page=0
      [params |-> [NoFields EXCEPT !["type"] = Str(<< "n" >>),
                                   !["name"] = Str(<< "7" >>)],
       query |-> [NoFields EXCEPT !["page"] = Str(<< "0" >>)],
       body |-> NoFields],
      \* POST /discuss with type=c&page=12 in the body and ?page=3
      [params |-> NoFields,
       query |-> [NoFields EXCEPT !["page"] = Str(<< "3" >>)],
       body |-> [NoFields EXCEPT !["type"] = Str(<< "c" >>),
                                 !["page"] = Str(<< "1", "2" >>)]],
      \* POST /discuss with the JSON body {"name": 7, "page": 0}
      [params |-> NoFields,
       query |-> NoFields,
       body |-> [NoFields EXCEPT !["name"] = Num(7),
                                 !["page"] = Num(0)]],
      \* POST /discuss?page=5 with the JSON body {"type": "", "name": 0}
      [params |-> NoFields,
       query |-> [NoFields EXCEPT !["page"] = Str(<< "5" >>)],
       body |-> [NoFields EXCEPT !["type"] = Str(<< >>),
                                 !["name"] = Num(0)]] }

\* mutant: the route parameters are spread last
MergedArgs_paramsWin(req) ==
    Spread(Spread(Spread([NoFields EXCEPT !["domainId"] =
                                       Str(<< "s", "y", "s", "t", "e", "m" >>)],
                         req.body), req.query), req.params)

\* const args = { domainId: 'system', ...ctx.params, ...ctx.query, ...ctx.request.body }
MergedArgs(req) ==
    Spread(Spread(Spread([NoFields EXCEPT !["domainId"] =
                                       Str(<< "s", "y", "s", "t", "e", "m" >>)],
                         req.params), req.query), req.body)

\* the map a descriptor reads its field from
SourceMap(item, req) ==
    IF item.source = "all" THEN MergedArgs(req)
    ELSE IF item.source = "get" THEN req.query
    ELSE IF item.source = "route"
    THEN [req.params EXCEPT !["domainId"] = MergedArgs(req)["domainId"]]
    ELSE req.body

\* mutant: the converter is called first, the validator after it
ItemCalls_convertsFirst(item, value, valid) ==
    (IF item.convert # "none"
     THEN << [fn |-> "convert", arg |-> value, valid |-> TRUE] >> ELSE << >>)
        \o (IF item.validate # "none"
            THEN << [fn |-> "validate", arg |-> value, valid |-> valid] >>
            ELSE << >>)

\* the calls one iteration makes for a value that is present, in order;
\* valid is what item.validate(value) returns:
\* if (item.validate && !item.validate(value)) throw ...;
\* if (item.convert) c.push(item.convert(value))
ItemCalls(item, value, valid) ==
    (IF item.validate # "none"
     THEN << [fn |-> "validate", arg |-> value, valid |-> valid] >>
     ELSE << >>)
        \o (IF valid /\ item.convert # "none"
            THEN << [fn |-> "convert", arg |-> value, valid |-> TRUE] >>
            ELSE << >>)

\* the binder's loop body with an optional field validated like any other
BindValid_validatesOptional(item, value, valid) ==
    IF Falsy(value) /\ ~item.isOptional
    THEN [error |-> item.name, value |-> Undefined,
          validated |-> FALSE, converted |-> FALSE, calls |-> << >>]
    ELSE IF ~valid
    THEN [error |-> item.name, value |-> Undefined,
          validated |-> TRUE, converted |-> FALSE,
          calls |-> ItemCalls(item, value, valid)]
    ELSE IF item.convert # "none"
    THEN [error |-> "", value |-> Convert(item.convert, value),
          validated |-> item.validate # "none", converted |-> TRUE,
          calls |-> ItemCalls(item, value, valid)]
    ELSE [error |-> "", value |-> value,
          validated |-> item.validate # "none", converted |-> FALSE,
          calls |-> ItemCalls(item, value, valid)]

\* the binder's loop body for the value read from the source; valid is
\* what item.validate(value) returns (TRUE when there is no validator):
\*   if (!item.isOptional || value) {
\*       if (!value) throw new ValidationError(item.name);
\*       if (item.validate && !item.validate(value)) throw ...;
\*       if (item.convert) c.push(item.convert(value)); else c.push(value);
\*   } else c.push(undefined)
BindValid(item, value, valid) ==
    IF ~item.isOptional \/ ~Falsy(value)
    THEN IF Falsy(value)
         THEN [error |-> item.name, value |-> Undefined,
               validated |-> FALSE, converted |-> FALSE, calls |-> << >>]
         ELSE IF ~valid
         THEN [error |-> item.name, value |-> Undefined,
               validated |-> TRUE, converted |-> FALSE,
               calls |-> ItemCalls(item, value, valid)]
         ELSE IF item.convert # "none"
         THEN [error |-> "", value |-> Convert(item.convert, value),
               validated |-> item.validate # "none", converted |-> TRUE,
               calls |-> ItemCalls(item, value, valid)]
         ELSE [error |-> "", value |-> value,
               validated |-> item.validate # "none", converted |-> FALSE,
               calls |-> ItemCalls(item, value, valid)]
    ELSE [error |-> "", value |-> Undefined,
          validated |-> FALSE, converted |-> FALSE, calls |-> << >>]

\* item.validate(value), for the value the binder read
BindValue(item, value) ==
    BindValid(item, value,
              item.validate = "none" \/ Validate(item.validate, value))

BindValue_validatesOptional(item, value) ==
    BindValid_validatesOptional(item, value,
              item.validate = "none" \/ Validate(item.validate, value))

\* mutant: the validator and the converter run for an optional field too
BindItem_validatesOptional(item, req) ==
    BindValue_validatesOptional(item, SourceMap(item, req)[item.name])

\* one iteration of the binder's loop: the value pushed, or the field a
\* ValidationError names; validated and converted tell whether
\* item.validate and item.convert were called, calls lists those calls
\*   const src = item.source === 'all' ? args : ... ;
\*   const value = src[item.name]
BindItem(item, req) == BindValue(item, SourceMap(item, req)[item.name])

\* for (const item of arglist) ...: the positional arguments c, or the
\* first field that fails
RECURSIVE BindFrom(_, _, _, _, _, _)
BindFrom(arglist, req, i, c, ran, calls) ==
    IF i > Len(arglist)
    THEN [outcome |-> "called", field |-> "", args |-> c, ran |-> ran,
          calls |-> calls]
    ELSE LET b == BindItem(arglist[i], req)
             step == [validated |-> b.validated, converted |-> b.converted]
         IN  IF b.error # ""
             THEN [outcome |-> "ValidationError", field |-> b.error,
                   args |-> << >>, ran |-> Append(ran, step),
                   calls |-> Append(calls, b.calls)]
             ELSE BindFrom(arglist, req, i + 1, Append(c, b.value),
                           Append(ran, step), Append(calls, b.calls))

Bind(arglist, req) == BindFrom(arglist, req, 1, << >>, << >>, << >>)

\* arglist.splice(1, 0, v)
Splice1(arglist, v) ==
    << arglist[1] >> \o << v >> \o SubSeq(arglist, 2, Len(arglist))

VARIABLES
    pending,   \* per method, the decorators written over it (top to bottom)
               \* that have not been applied yet
    __param,   \* target.__param[constructor.name][funcName]; << >> when unset
    applied,   \* per method, the descriptors in the order they were applied
    lastCall   \* the last call of a decorated method: what the original
               \* method received (args) and, per descriptor the binder
               \* reached, whether its validator and converter ran (ran),
               \* and its validator and converter calls in order (calls)

paramVars == << pending, __param, applied, lastCall >>

NotCalled ==
    [key |-> << >>, req |-> [params |-> NoFields, query |-> NoFields,
                             body |-> NoFields],
     outcome |-> "none", field |-> "", args |-> << >>, ran |-> << >>,
     calls |-> << >>]

\* no decorated method in the program
ParamIdle ==
    /\ pending = [k \in MethodKeys |-> << >>]
    /\ __param = [k \in MethodKeys |-> << >>]
    /\ applied = [k \in MethodKeys |-> << >>]
    /\ lastCall = NotCalled

(***************************************************************************)
(* Sessions: the session store, getSession, saveCookie, getCsrfToken       *)
(***************************************************************************)
\* session ids are the random strings the store assigns; NoId is undefined
NoId == << >>

MaxTokens == 2

TokenIds == { << "sid", n >> : n \in 1..MaxTokens }

\* String.random(32) in init, for a session that has no id yet
RandomKeys == { << "random", 1 >> }

\* system.get('session.expire_seconds'), in units of the model's clock
session_expire_seconds == 2

\* system.get('session.unsaved_expire_seconds')
session_unsaved_expire_seconds == 1

\* the clock stops here
MaxTime == 2

\* who sends a request: this.request.ip and
\* this.request.headers['user-agent'] || '' (one sends no such header)
Requesters ==
    { [ip |-> "10.0.0.1", ua |-> ""], [ip |-> "10.0.0.2", ua |-> "curl"] }

\* the uid of {}: undefined (0 is the anonymous user)
NoUid == 0 - 1

\* this.session = {} of the constructor
EmptySession ==
    [_id |-> NoId, uid |-> NoUid, scope |-> "", save |-> FALSE, expireAt |-> 0,
     createIp |-> "", createUa |-> "", updateIp |-> "", updateUa |-> ""]

\* { uid: 0 }
AnonymousSession == [EmptySession EXCEPT !.uid = 0]

\* the session store (model/token): get(id, kind) -> Session | absent
tokenGet(tokens, sid) ==
    IF \E d \in tokens : d._id = sid
    THEN CHOOSE d \in tokens : d._id = sid
    ELSE EmptySession

\* update(id, kind, ttlSeconds, fields): the record of that id takes the
\* fields and a fresh expiry; no record is made when there is none
tokenUpdate(tokens, id, ttl, fields, now) ==
    { IF d._id = id THEN [fields EXCEPT !._id = id, !.expireAt = now + ttl]
      ELSE d : d \in tokens }

\* add(kind, ttlSeconds, fields) -> (id, Session): id is the id the store
\* assigns
tokenAdd(tokens, id, ttl, fields, now) ==
    LET doc == [fields EXCEPT !._id = id, !.expireAt = now + ttl]
    IN  [tokens |-> tokens \cup { doc }, session |-> doc]

\* the store drops the records whose expiry has passed
tokenExpire(tokens, now) == { d \in tokens : d.expireAt > now }

\* Handler.getSession: the session of the sid cookie, or { uid: 0 }
getSession(tokens, sid) ==
    LET found == tokenGet(tokens, sid)
    IN  IF found = EmptySession THEN AnonymousSession ELSE found

NoCookie ==
    [sid |-> NoId, hasExpires |-> FALSE, expires |-> 0,
     hasMaxAge |-> FALSE, maxAge |-> 0]

NoStoreCall == [op |-> "none", id |-> NoId, ttl |-> 0, fields |-> EmptySession]

\* const expireSeconds = this.session.save ? ... : ...
expireSecondsOf(sess) ==
    IF sess.save THEN session_expire_seconds
    ELSE session_unsaved_expire_seconds

\* mutant: expires and maxAge are set for every session
sidCookie_alwaysExpires(sess, expireSeconds) ==
    [sid |-> sess._id, hasExpires |-> TRUE, expires |-> sess.expireAt,
     hasMaxAge |-> TRUE, maxAge |-> expireSeconds]

\* this.ctx.cookies.set('sid', this.session._id, cookie)
sidCookie(sess, expireSeconds) ==
    [sid |-> sess._id,
     hasExpires |-> sess.save,
     expires |-> IF sess.save THEN sess.expireAt ELSE 0,
     hasMaxAge |-> sess.save,
     maxAge |-> IF sess.save THEN expireSeconds ELSE 0]

\* mutant: a record is added whether or not the session has an id
saveCookie_alwaysAdds(sess, tokens, ip, ua, now, newId) ==
    LET expireSeconds == expireSecondsOf(sess)
        updated == [sess EXCEPT !.updateIp = ip, !.updateUa = ua]
        created == [updated EXCEPT !.createIp = ip, !.createUa = ua]
        added == tokenAdd(tokens, newId, expireSeconds, created, now)
    IN  [session |-> added.session,
         tokens |-> added.tokens,
         call |-> [op |-> "add", id |-> NoId, ttl |-> expireSeconds,
                   fields |-> created],
         cookie |-> sidCookie(added.session, expireSeconds)]

\* Handler.saveCookie: the session and the store after it, the call it made
\* to the store, and the sid cookie it set. newId is the id the store
\* assigns if a record is added.
saveCookie(sess, tokens, ip, ua, now, newId) ==
    LET expireSeconds == expireSecondsOf(sess)
        updated == [sess EXCEPT !.updateIp = ip, !.updateUa = ua]
        created == [updated EXCEPT !.createIp = ip, !.createUa = ua]
        added == tokenAdd(tokens, newId, expireSeconds, created, now)
    IN  IF sess._id # NoId
        THEN [session |-> sess,
              tokens |-> tokenUpdate(tokens, sess._id, expireSeconds, updated, now),
              call |-> [op |-> "update", id |-> sess._id, ttl |-> expireSeconds,
                        fields |-> updated],
              cookie |-> sidCookie(sess, expireSeconds)]
        ELSE [session |-> added.session,
              tokens |-> added.tokens,
              call |-> [op |-> "add", id |-> NoId, ttl |-> expireSeconds,
                        fields |-> created],
              cookie |-> sidCookie(added.session, expireSeconds)]

\* lib/hash.hydro: a pure function of its arguments
hash(salt, id) == << "hash", salt, id >>

\* the cache of @lrucache: the results kept, as pairs << argument, result >>
Cached(cache, key) == \E e \in cache : e[1] = key

CachedResult(cache, key) == (CHOOSE e \in cache : e[1] = key)[2]

\* mutant: the cache keeps only the result of the last call
getCsrfToken_evicts(cache, id) ==
    IF Cached(cache, id)
    THEN [token |-> CachedResult(cache, id), cache |-> cache, hit |-> TRUE]
    ELSE LET res == hash("csrf_token", id)
         IN  [token |-> res, cache |-> { << id, res >> }, hit |-> FALSE]

\* @lrucache getCsrfToken(id) { return hash('csrf_token', id); }
getCsrfToken(cache, id) ==
    IF Cached(cache, id)
    THEN [token |-> CachedResult(cache, id), cache |-> cache, hit |-> TRUE]
    ELSE LET res == hash("csrf_token", id)
         IN  [token |-> res, cache |-> cache \cup { << id, res >> },
              hit |-> FALSE]

VARIABLES
    tokens,       \* the records of the session store
    now,          \* the clock the store computes expiry from
    idsAssigned,  \* how many ids the store has assigned
    jar,          \* the sid cookie the browser holds
    spc,          \* where the request being served stands
    sreq,         \* the request being served: sid cookie, ip, user-agent,
                  \* and the ids the store held when it arrived
    session,      \* this.session
    resolved,     \* this.session as getSession left it
    sbody,        \* this.response.body
    csrfToken,    \* this.csrfToken
    csrfCache,    \* the cache of getCsrfToken, shared by all handlers
    csrfIssued,   \* every << id, token, from the cache >> a call of
                  \* getCsrfToken returned
    last,         \* summary of the request that ended last
    prev,         \* summary of the request that ended before it
    sreqCount     \* requests that have ended

sessVars ==
    << tokens, now, idsAssigned, jar, spc, sreq, session, resolved, sbody,
       csrfToken, csrfCache, csrfIssued, last, prev, sreqCount >>

IdsOf(recs) == { d._id : d \in recs }

NoRequest ==
    [sid |-> NoId, ip |-> "", ua |-> "", idsAtStart |-> {}, idsAtGet |-> {}]

NoSummary ==
    [n |-> 0, arrived |-> NoId, idsAtGet |-> {}, resolved |-> EmptySession,
     before |-> EmptySession,
     idsBefore |-> {}, idsAfter |-> {}, created |-> {}, call |-> NoStoreCall,
     cookie |-> NoCookie, session |-> EmptySession, ip |-> "", ua |-> ""]

NoToken == << >>

\* no request served yet, a browser without cookie
SessHandlerIdle ==
    /\ now = 0
    /\ idsAssigned = 0
    /\ jar = NoCookie
    /\ spc = "idle"
    /\ sreq = NoRequest
    /\ session = EmptySession
    /\ resolved = EmptySession
    /\ sbody = "{}"
    /\ csrfToken = NoToken
    /\ csrfCache = {}
    /\ csrfIssued = {}
    /\ last = NoSummary
    /\ prev = NoSummary
    /\ sreqCount = 0

SessIdle == tokens = {} /\ SessHandlerIdle

(***************************************************************************)
(* Socket connections: ConnectionHandler and Connection                    *)
(***************************************************************************)
\* s.split(sep)
RECURSIVE SplitFrom(_, _, _, _, _)
SplitFrom(s, sep, i, cur, acc) ==
    IF i > Len(s) THEN Append(acc, cur)
    ELSE IF s[i] = sep THEN SplitFrom(s, sep, i + 1, << >>, Append(acc, cur))
    ELSE SplitFrom(s, sep, i + 1, Append(cur, s[i]), acc)

split(s, sep) == SplitFrom(s, sep, 1, << >>, << >>)

\* s.trim()
RECURSIVE trim(_)
trim(s) ==
    IF s = << >> THEN s
    ELSE IF s[1] = " " THEN trim(Tail(s))
    ELSE IF s[Len(s)] = " " THEN trim(SubSeq(s, 1, Len(s) - 1))
    ELSE s

N_sid == << "s", "i", "d" >>

\* the loop of ConnectionHandler.getSession over cookieHeader.split(';'),
\* then cookies.sid || '': the value of the last cookie named sid
CookieSid(cookieHeader) ==
    LET ref == split(cookieHeader, ";")
        parts(j) == split(ref[j], "=")
        named == { j \in DOMAIN ref : trim(parts(j)[1]) = N_sid }
    IN  IF named = {} THEN << >>
        ELSE LET j == CHOOSE k \in named : \A l \in named : l <= k
             IN  IF Len(parts(j)) >= 2 THEN trim(parts(j)[2]) ELSE << >>

\* this.session = await token.get(cookies.sid || '', ...), or
\* { uid: 0, domainId: 'system' }
connGetSession(store, cookieHeader) ==
    LET found == tokenGet(store, CookieSid(cookieHeader))
    IN  IF found = EmptySession THEN AnonymousSession ELSE found

\* target.__param.ConnectionHandler.init
ConnInitParams == Splice1(<< DomainIdDescriptor >>, D_cookie)

\* the args Connection passes to h.init: { domainId: 'system',
\* ...h.request.params, cookie }
ConnArgs(cookie) ==
    [params |-> NoFields, query |-> NoFields,
     body |-> [NoFields EXCEPT !["cookie"] = Str(cookie)]]

\* JSON.parse(data) of the frames the model sends: only "{}" parses
JSONparses(data) == data = << "{", "}" >>

\* frames a client sends
Frames ==
    { << >>,
      << "s", "i", "d", "=", "a" >>,
      << "x", "=", "1", ";", " ", "s", "i", "d", "=", "b" >>,
      << "{", "}" >> }

\* the session store a connection is resolved against: session a of user 2
SocketSessions ==
    { [EmptySession EXCEPT !._id = << "a" >>, !.uid = 2, !.expireAt = 1] }

\* frames a client sends over one connection
MaxFrames == 3

N_finish == << "f", "i", "n", "i", "s", "h" >>

\* members a connection handler class may define besides those of
\* ConnectionHandler (message is defined there)
ConnMemberNames == { N__prepare, N_prepare, N_cleanup, N_finish }

\* errors ConnectionHandler.init throws from its own body
ConnInitErrors == { "BlacklistedError", "UserNotFoundError" }

VARIABLES
    cpc,        \* where the connection listener stands
    connOpen,   \* the transport is open
    listeners,  \* the listeners registered on conn: "once:data", "data", "close"
    cookie0,    \* the first frame, taken as the cookie
    csession,   \* h.session
    cuser,      \* h.user: "unset" or "resolved"
    craised,    \* what the try block threw
    clog,       \* what happened on the connection, in order: frames that
                \* arrived, hooks called, frames written, closes
    sentFrames, \* frames the client has sent
    messages,   \* frames h.message was called with
    closeCode,  \* the code h.close was called with, 0 before
    uncaught    \* an exception left a listener uncaught

sockVars ==
    << cpc, connOpen, listeners, cookie0, csession, cuser, craised, clog,
       sentFrames, messages, closeCode, uncaught >>

\* no connection accepted yet
SockIdle ==
    /\ cpc = "idle"
    /\ connOpen = FALSE
    /\ listeners = {}
    /\ cookie0 = << >>
    /\ csession = EmptySession
    /\ cuser = "unset"
    /\ craised = NoError
    /\ clog = << >>
    /\ sentFrames = 0
    /\ messages = << >>
    /\ closeCode = 0
    /\ uncaught = FALSE

(***************************************************************************)
(* Handler.init: the concurrent lookups                                    *)
(***************************************************************************)
\* the promises init passes to Promise.all
LookupNames == { "domain", "session", "bdoc" }

\* no lookup started
NoLookups == [l \in LookupNames |-> "idle"]

\* mutant: the combined promise waits for every lookup and then fulfils
\* (Promise.allSettled)
PromiseAll_allSettled(l) ==
    IF \A n \in LookupNames : l[n] \notin { "idle", "pending" } THEN "fulfilled"
    ELSE "pending"

\* Promise.all([...]): rejected as soon as one promise is rejected,
\* fulfilled when all are fulfilled
PromiseAll(l) ==
    IF \E n \in LookupNames : l[n] = "rejected" THEN "rejected"
    ELSE IF \A n \in LookupNames : l[n] \notin { "idle", "pending" } THEN "fulfilled"
    ELSE "pending"

VARIABLES
    ipc,        \* where the body of init stands
    lookups,    \* the promises of Promise.all: pending, rejected or the
                \* value they fulfilled with
    idomain,    \* this.domain
    isession,   \* this.session: as constructed ("empty"), the stored one
                \* ("loaded") or { uid: 0 } ("anonymous"), and either of
                \* these reset to uid 0 by init
    iuser       \* this.user: whose it is and the domain it was looked up in

initVars == << ipc, lookups, idomain, isession, iuser >>

NoUser == [who |-> "unset", domain |-> "none"]

InitIdle ==
    /\ ipc = "idle"
    /\ lookups = NoLookups
    /\ idomain = "unset"
    /\ isession = "empty"
    /\ iuser = NoUser

(***************************************************************************)
(* Calls of single functions: the arguments and what the call returned    *)
(***************************************************************************)
VARIABLES
    fpc,        \* "idle", "ready" (arguments chosen) or "done"
    fin,        \* the arguments of the call
    fout        \* what the call returned

fnVars == << fpc, fin, fout >>

NoCall == << >>

FnIdle ==
    /\ fpc = "idle"
    /\ fin = NoCall
    /\ fout = NoCall

(***************************************************************************)
(* State of one dispatched HTTP request                                    *)
(***************************************************************************)
VARIABLES
    HandlerClass,   \* members the registered handler class defines
    checker,        \* the closure Route captured from Checker(...)
    predicate,      \* the predicate function passed at registration, if any
    pc,             \* where handle() stands
    reqCount,       \* global.Hydro.stat.reqCount
    method,         \* ctx.method.toLowerCase()
    operation,      \* the CamelCase operation, << >> when none
    json,           \* this.request.json
    user,           \* this.user: "unset" or "resolved"
    response,       \* this.response
    ctxResponse,    \* ctx.response: what the client receives
    cookie,         \* whether the sid cookie was emitted
    storeRejected,  \* a write of saveCookie to the session store rejected
    trace,          \* lifecycle steps in the order they were invoked
    guardEvaluated, \* the checks the guard evaluated, in order
    invoked,        \* members of h the dispatcher called, in order
    raised,         \* the step that threw into handle()'s catch, and what
    renderCaught,   \* finish caught a renderBody error itself
    onerrorCalls,   \* calls of h.onerror
    onerrorThrew    \* h.onerror itself threw

httpVars ==
    << HandlerClass, checker, predicate, pc, reqCount, method, operation, json,
       user, response, ctxResponse, cookie, storeRejected, trace,
       guardEvaluated, invoked,
       raised, renderCaught, onerrorCalls, onerrorThrew >>

vars == << httpVars, paramVars, sessVars, sockVars, initVars, fnVars >>

registration == << HandlerClass, checker, predicate >>

request == << reqCount, method, operation, json >>

NotRaised == [step |-> "none", error |-> NoError, at |-> 0]

\* no request dispatched yet
HttpIdle ==
    /\ pc = "idle"
    /\ reqCount = 0
    /\ method = << >>
    /\ operation = << >>
    /\ json = FALSE
    /\ user = "unset"
    /\ response = NewResponse
    /\ ctxResponse = NewCtxResponse
    /\ cookie = FALSE
    /\ storeRejected = FALSE
    /\ trace = << >>
    /\ guardEvaluated = << >>
    /\ invoked = << >>
    /\ raised = NotRaised
    /\ renderCaught = FALSE
    /\ onerrorCalls = 0
    /\ onerrorThrew = FALSE

\* Route(name, path, RouteHandler, ...permPrivChecker) has registered one
\* handler class with the guard composed from its fragments
Init ==
    /\ HandlerClass \in SUBSET MemberNames
    /\ \E frags \in FragmentLists :
          /\ checker = Checker(frags)
          /\ predicate = RegisteredPredicate(frags)
    /\ HttpIdle
    /\ ParamIdle
    /\ SessIdle
    /\ SockIdle
    /\ InitIdle
    /\ FnIdle

(***************************************************************************)
(* handle(ctx, HandlerClass, checker)                                      *)
(***************************************************************************)
\* requests the model dispatches
Verbs == { GET, POST }

BodyOperations == { NoOperation, add_reply }

\* mutant: a throw of the guard is caught around the guard alone and
\* dispatch goes on
Throw_continues(step, e) ==
    /\ raised' = [step |-> step, error |-> e, at |-> Len(trace')]
    /\ pc' = IF step = "guard" THEN "resolve" ELSE "onerror"

\* a throw inside the try block: control goes to the catch clause
Throw(step, e) ==
    /\ raised' = [step |-> step, error |-> e, at |-> Len(trace')]
    /\ pc' = "onerror"

\* reqCount++, merge args, construct the handler, lower-case the verb and
\* derive the operation
Dispatch(m, op, j) ==
    /\ pc = "idle"
    /\ reqCount' = reqCount + 1
    /\ method' = toLowerCase(m)
    /\ operation' = IF toLowerCase(m) = N_post /\ op # NoOperation
                    THEN CamelOperation(op)
                    ELSE << >>
    /\ json' = j
    /\ pc' = "init"
    /\ UNCHANGED << paramVars, sessVars, sockVars, initVars, fnVars, registration, user, response, ctxResponse, cookie, storeRejected, trace,
                    guardEvaluated, invoked, raised, renderCaught, onerrorCalls,
                    onerrorThrew >>

\* mutant: dispatch goes from init to method resolution without the guard
RunInit_skipsGuard ==
    /\ pc = "init"
    /\ trace' = Append(trace, "init")
    /\ \/ /\ user' = "resolved"
          /\ pc' = "resolve"
          /\ UNCHANGED raised
       \/ \E e \in InitErrors :
             /\ user' = IF e = "NotFoundError" THEN "resolved" ELSE "unset"
             /\ Throw("init", e)
    /\ UNCHANGED << paramVars, sessVars, sockVars, initVars, fnVars, registration, request, response, ctxResponse,
                    cookie, storeRejected, guardEvaluated, invoked, renderCaught, onerrorCalls,
                    onerrorThrew >>

\* await h.init(args)
RunInit ==
    /\ pc = "init"
    /\ trace' = Append(trace, "init")
    /\ \/ /\ user' = "resolved"
          /\ pc' = "guard"
          /\ UNCHANGED raised
       \/ \E e \in InitErrors :
             /\ user' = IF e = "NotFoundError" THEN "resolved" ELSE "unset"
             /\ Throw("init", e)
    /\ UNCHANGED << paramVars, sessVars, sockVars, initVars, fnVars, registration, request, response, ctxResponse, cookie, storeRejected,
                    guardEvaluated, invoked, renderCaught, onerrorCalls,
                    onerrorThrew >>

\* if (checker) checker.call(h)
RunGuard ==
    /\ pc = "guard"
    /\ trace' = Append(trace, "guard")
    /\ \E hasPerm \in BOOLEAN, hasPriv \in BOOLEAN :
          LET res == check(checker, hasPerm, hasPriv)
          IN  /\ guardEvaluated' = res.evaluated
              /\ IF res.error = NoError
                 THEN pc' = "resolve" /\ UNCHANGED raised
                 ELSE Throw("guard", res.error)
    /\ UNCHANGED << paramVars, sessVars, sockVars, initVars, fnVars, registration, request, user, response, ctxResponse, cookie, storeRejected,
                    invoked, renderCaught, onerrorCalls, onerrorThrew >>

\* mutant: a verb other than POST needs both its own method and all
ResolutionError_either(members, meth, op) ==
    IF meth = N_post
    THEN IF op # << >>
         THEN IF (N_post \o op) \notin members
              THEN "InvalidOperationError" ELSE NoError
         ELSE IF N_post \notin members
              THEN "MethodNotAllowedError" ELSE NoError
    ELSE IF meth \notin members \/ N_all \notin members
         THEN "MethodNotAllowedError" ELSE NoError

\* the error method resolution throws, if any
ResolutionError(members, meth, op) ==
    IF meth = N_post
    THEN IF op # << >>
         THEN IF (N_post \o op) \notin members
              THEN "InvalidOperationError" ELSE NoError
         ELSE IF N_post \notin members
              THEN "MethodNotAllowedError" ELSE NoError
    ELSE IF meth \notin members /\ N_all \notin members
         THEN "MethodNotAllowedError" ELSE NoError

ResolveMethod ==
    /\ pc = "resolve"
    /\ trace' = trace
    /\ LET e == ResolutionError(HandlerClass, method, operation)
       IN  IF e = NoError
           THEN pc' = "_prepare" /\ UNCHANGED raised
           ELSE Throw("resolve", e)
    /\ UNCHANGED << paramVars, sessVars, sockVars, initVars, fnVars, registration, request, user, response, ctxResponse, cookie, storeRejected,
                    guardEvaluated, invoked, renderCaught, onerrorCalls,
                    onerrorThrew >>

\* if (h[member]) await h[member](args): the member is called when the
\* handler has it, and either returns (leaving eff in the response) or throws
CallIfDefined(step, member, next, effects) ==
    /\ pc = step
    /\ IF member \in HandlerClass
       THEN /\ trace' = Append(trace, step)
            /\ invoked' = Append(invoked, member)
            /\ \/ \E eff \in effects :
                     /\ response' = ApplyBodyEffect(response, eff)
                     /\ ctxResponse' = ApplyCtxEffect(ctxResponse, eff)
                     /\ pc' = next
                     /\ UNCHANGED raised
               \/ \E e \in HookErrors :
                     /\ response' = response
                     /\ ctxResponse' = ctxResponse
                     /\ Throw(step, e)
       ELSE /\ pc' = next
            /\ UNCHANGED << trace, invoked, response, ctxResponse, raised >>
    /\ UNCHANGED << paramVars, sessVars, sockVars, initVars, fnVars, registration, request, user, cookie, storeRejected,
                    guardEvaluated, renderCaught, onerrorCalls, onerrorThrew >>

\* mutant: prepare is skipped after _prepare
Run_prepare_skipsPrepare ==
    CallIfDefined("_prepare", N__prepare, "method", { "none" })

\* if (h._prepare) await h._prepare(args)
Run_prepare == CallIfDefined("_prepare", N__prepare, "prepare", { "none" })

\* if (h.prepare) await h.prepare(args)
RunPrepare == CallIfDefined("prepare", N_prepare, "method", { "none" })

\* mutant: a handler without a method of the verb's name has all called
RunMethod_callsAll ==
    CallIfDefined("method", IF method \in HandlerClass THEN method ELSE N_all,
                  "operation", MethodEffects)

\* if (h[method]) await h[method](args)
RunMethod == CallIfDefined("method", method, "operation", MethodEffects)

\* if (operation) await h[`post${operation}`](args)
RunOperation ==
    IF operation # << >>
    THEN CallIfDefined("operation", N_post \o operation, "cleanup", BodyEffects)
    ELSE /\ pc = "operation"
         /\ pc' = "cleanup"
         /\ UNCHANGED << paramVars, sessVars, sockVars, initVars, fnVars, registration, request, user, response, ctxResponse,
                         cookie, storeRejected, trace, guardEvaluated, invoked, raised,
                         renderCaught, onerrorCalls, onerrorThrew >>

\* if (h.cleanup) await h.cleanup(args)
RunCleanup == CallIfDefined("cleanup", N_cleanup, "finish", { "none" })

\* if (h.finish) await h.finish(args): Handler defines finish
RunFinish ==
    /\ pc = "finish"
    /\ trace' = Append(trace, "finish")
    /\ \E renderThrows \in BOOLEAN, errRenderThrows \in BOOLEAN,
          saveThrows \in BOOLEAN :
          LET f == finish(response, ctxResponse, json, user = "resolved",
                          renderThrows, errRenderThrows, saveThrows)
          IN  /\ response' = f.response
              /\ ctxResponse' = f.ctx
              /\ cookie' = f.cookie
              /\ storeRejected' = f.threw
              /\ renderCaught' = f.renderCaught
              /\ IF f.threw
                 THEN \E e \in StoreErrors : Throw("finish", e)
                 ELSE pc' = "done" /\ UNCHANGED raised
    /\ UNCHANGED << paramVars, sessVars, sockVars, initVars, fnVars, registration, request, user, guardEvaluated, invoked,
                    onerrorCalls, onerrorThrew >>

\* mutant: what the finish inside onerror rejects with is not swallowed and
\* reaches the catch clause again
RunOnerror_retries ==
    /\ pc = "onerror"
    /\ onerrorCalls' = onerrorCalls + 1
    /\ onerrorThrew' = FALSE
    /\ trace' = trace \o << "onerror", "onerror.finish" >>
    /\ \E renderThrows \in BOOLEAN, errRenderThrows \in BOOLEAN,
          saveThrows \in BOOLEAN :
          LET f == finish(onerrorResponse(response, raised.error),
                          ctxResponse, json, user = "resolved",
                          renderThrows, errRenderThrows, saveThrows)
          IN  /\ response' = f.response
              /\ ctxResponse' = f.ctx
              /\ cookie' = (cookie \/ f.cookie)
              /\ storeRejected' = (storeRejected \/ f.threw)
              /\ renderCaught' = (renderCaught \/ f.renderCaught)
              /\ pc' = IF f.threw THEN "onerror" ELSE "done"
    /\ UNCHANGED << paramVars, sessVars, sockVars, initVars, fnVars, registration, request, user, guardEvaluated,
                    invoked, raised >>

\* catch (e) { try { await h.onerror(e) } catch (err) { h.response.code = 500;
\* h.response.body = `${err.message}\n${err.stack}` } }
\* Handler.onerror sets status, template and body and awaits
\* this.finish().catch(() => { }), which swallows what finish rejects with.
RunOnerror ==
    /\ pc = "onerror"
    /\ onerrorCalls' = onerrorCalls + 1
    /\ IF onerrorThrows(raised.error)
       THEN /\ onerrorThrew' = TRUE
            /\ trace' = Append(trace, "onerror")
            /\ response' = [response EXCEPT !.code = 500, !.body = "raw"]
            /\ UNCHANGED << ctxResponse, cookie, storeRejected, renderCaught >>
       ELSE /\ onerrorThrew' = FALSE
            /\ trace' = trace \o << "onerror", "onerror.finish" >>
            /\ \E renderThrows \in BOOLEAN, errRenderThrows \in BOOLEAN,
                  saveThrows \in BOOLEAN :
                  LET f == finish(onerrorResponse(response, raised.error),
                                  ctxResponse, json, user = "resolved",
                                  renderThrows, errRenderThrows, saveThrows)
                  IN  /\ response' = f.response
                      /\ ctxResponse' = f.ctx
                      /\ cookie' = (cookie \/ f.cookie)
                      /\ storeRejected' = (storeRejected \/ f.threw)
                      /\ renderCaught' = (renderCaught \/ f.renderCaught)
    /\ pc' = "done"
    /\ UNCHANGED << paramVars, sessVars, sockVars, initVars, fnVars, registration, request, user, guardEvaluated, invoked, raised >>

Next ==
    \/ \E m \in Verbs, op \in BodyOperations, j \in BOOLEAN : Dispatch(m, op, j)
    \/ RunInit
    \/ RunGuard
    \/ ResolveMethod
    \/ Run_prepare
    \/ RunPrepare
    \/ RunMethod
    \/ RunOperation
    \/ RunCleanup
    \/ RunFinish
    \/ RunOnerror

Spec == Init /\ [][Next]_vars

(***************************************************************************)
(* Properties of the HTTP dispatcher (checked under Spec)                  *)
(***************************************************************************)
Count(label) == Cardinality({ i \in DOMAIN trace : trace[i] = label })

Occurs(label) == \E i \in DOMAIN trace : trace[i] = label

IsPrefix(s, t) == Len(s) <= Len(t) /\ \A i \in 1..Len(s) : s[i] = t[i]

\* the steps of a request that returns normally, in the order of handle()
LifecycleOrder ==
    << "init", "guard", "_prepare", "prepare", "method", "operation",
       "cleanup", "finish" >>

\* the member of h a step calls (init, the guard and finish always exist)
StepMember(step) ==
    CASE step = "_prepare" -> N__prepare
      [] step = "prepare" -> N_prepare
      [] step = "method" -> method
      [] step = "operation" -> N_post \o operation
      [] step = "cleanup" -> N_cleanup
      [] OTHER -> << >>

\* a step takes part in this request: hooks and the primary method when the
\* handler defines them, the operation method when an operation was named
StepApplies(step) ==
    CASE step \in { "_prepare", "prepare", "method", "cleanup" } ->
             StepMember(step) \in HandlerClass
      [] step = "operation" -> operation # << >>
      [] OTHER -> TRUE

HookSteps == { "_prepare", "prepare", "method", "operation", "cleanup" }

ExpectedTrace == SelectSeq(LifecycleOrder, StepApplies)

ExpectedInvoked ==
    LET called == SelectSeq(ExpectedTrace, LAMBDA st : st \in HookSteps)
    IN  [i \in 1..Len(called) |-> StepMember(called[i])]

\* C1: while no step has raised, the steps invoked so far are an initial
\* part of init, guard, _prepare, prepare, primary method, operation method,
\* cleanup, finish (each hook taking part when the handler defines it, the
\* operation method when an operation was named), and a request that ends
\* without a raise has run exactly that sequence, each step once. Every
\* step is awaited before the next is invoked: a step is one transition.
C1_LifecycleOrder ==
    (pc # "idle" /\ raised = NotRaised) =>
        /\ IsPrefix(trace, ExpectedTrace)
        /\ IsPrefix(invoked, ExpectedInvoked)
        /\ pc = "done" => (trace = ExpectedTrace /\ invoked = ExpectedInvoked)

\* a POST naming an operation on a handler that defines every hook, the
\* generic post and the operation method ran all eight steps
C1_Witness ==
    /\ pc = "done"
    /\ raised = NotRaised
    /\ trace = LifecycleOrder
    /\ invoked = << N__prepare, N_prepare, N_post, N_postAddReply, N_cleanup >>

\* C2: a request whose dispatch is over called onerror exactly once when a
\* stage (init, guard, method resolution, a prepare hook, a method body,
\* cleanup or finish) threw into handle(), and not at all otherwise; onerror
\* is never called twice, also when the finish it runs rejects.
C2_SingleOnerror ==
    /\ onerrorCalls <= 1
    /\ pc = "done" => onerrorCalls = (IF raised.step # "none" THEN 1 ELSE 0)
    /\ pc = "onerror" => (raised.step # "none" /\ onerrorCalls = 0)
    /\ pc \notin { "done", "onerror" } => (raised = NotRaised /\ onerrorCalls = 0)

\* finish rejected, onerror ran once, and the finish inside onerror rejected
\* again (no cookie was emitted) without a second onerror
C2_Witness ==
    /\ pc = "done"
    /\ raised.step = "finish"
    /\ onerrorCalls = 1
    /\ ~onerrorThrew
    /\ ~cookie

\* errors that abort the lifecycle: validation, authorization, resolution
AbortingErrors ==
    { "ValidationError", "PermissionError", "PrivilegeError",
      "InvalidOperationError", "MethodNotAllowedError" }

RecoverySteps == { "onerror", "onerror.finish" }

\* C3: when the guard raises, no prepare hook, method body or cleanup is
\* invoked; and once a step raises a validation, authorization or
\* method-resolution error, nothing but error recovery is invoked after it
\* and the failed step is not invoked again.
C3_AbortOnError ==
    /\ raised.step = "guard" =>
           (invoked = << >> /\ \A st \in HookSteps : ~Occurs(st))
    /\ raised.error \in AbortingErrors =>
           /\ \A i \in DOMAIN trace : i > raised.at => trace[i] \in RecoverySteps
           /\ raised.step # "resolve" =>
                  (Count(raised.step) = 1 /\ trace[raised.at] = raised.step)

\* the permission check failed on a handler that defines both prepare hooks
\* and cleanup, and recovery has run
C3_Witness ==
    /\ pc = "done"
    /\ raised.step = "guard"
    /\ raised.error = "PermissionError"
    /\ { N__prepare, N_prepare, N_cleanup, N_get } \subseteq HandlerClass
    /\ method = N_get

\* C4: the guard is evaluated at most once per request, only after init has
\* completed, before every prepare hook and method body; a request whose
\* init completed has evaluated it exactly once by the time dispatch ends.
C4_GuardOnce ==
    /\ Count("guard") <= 1
    /\ Occurs("guard") =>
           (Len(trace) >= 2 /\ trace[1] = "init" /\ trace[2] = "guard"
            /\ raised.step # "init")
    /\ \A i \in DOMAIN trace :
           trace[i] \in HookSteps => \E k \in 1..(i - 1) : trace[k] = "guard"
    /\ (pc \notin { "idle", "init", "guard" } /\ raised.step # "init") =>
           Count("guard") = 1

\* a request ran its primary method, after one evaluation of a guard that
\* checked a permission
C4_Witness ==
    /\ pc = "done"
    /\ Occurs("method")
    /\ Count("guard") = 1
    /\ guardEvaluated = << "perm" >>

\* C5 (as claimed): when onerror itself throws, dispatch still ends and the
\* client receives a raw body with status 500.
C5_RecoveryFailureSends500 ==
    (pc = "done" /\ onerrorThrew) =>
        (ctxResponse.status = 500 /\ ctxResponse.body = "raw")

\* the checks a composed guard holds, in the order check() runs them
CapturedChecks ==
    SelectSeq(<< "predicate", "perm", "priv" >>,
              LAMBDA c : CASE c = "predicate" -> checker.checker # "noop"
                           [] c = "perm" -> checker.perm = "set"
                           [] c = "priv" -> checker.priv = "set")

\* the error a failing check raises
CheckErrors(c) ==
    CASE c = "predicate" -> { "TypeError", "PermissionError" }
      [] c = "perm" -> { "PermissionError" }
      [] c = "priv" -> { "PrivilegeError" }

\* C6: one evaluation of the composed guard runs its checks in the order
\* predicate, permission, privilege; a guard that passes has run all of
\* them, and a guard that raises has stopped at the failing check: that
\* check is the last one evaluated and no later check was evaluated.
C6_GuardShortCircuit ==
    Occurs("guard") =>
        /\ IsPrefix(guardEvaluated, CapturedChecks)
        /\ raised.step # "guard" => guardEvaluated = CapturedChecks
        /\ raised.step = "guard" =>
               /\ guardEvaluated # << >>
               /\ raised.error \in CheckErrors(guardEvaluated[Len(guardEvaluated)])

\* the permission check failed and the privilege check, which the guard
\* holds, was not evaluated
C6_Witness ==
    /\ raised.step = "guard"
    /\ raised.error = "PermissionError"
    /\ checker.perm = "set"
    /\ checker.priv = "set"
    /\ guardEvaluated = << "perm" >>

\* C7 (as claimed): a predicate function passed at registration is captured
\* by the composed guard and invoked on every evaluation, so a request
\* whose predicate raises reaches no prepare hook and no method body.
C7_PredicateCaptured ==
    (predicate # "none" /\ Occurs("guard")) =>
        /\ checker.checker = predicate
        /\ guardEvaluated # << >> /\ guardEvaluated[1] = "predicate"
        /\ predicate = "fn_throw" =>
               \A st \in { "_prepare", "prepare", "method", "operation" } :
                   ~Occurs(st)

\* C8: a POST whose body names add_reply resolves post + AddReply; on a
\* handler that defines postAddReply resolution does not fail and a request
\* that ends without a raise has called postAddReply once; on a handler
\* without it, a request that passed init and the guard raises
\* InvalidOperationError in method resolution and calls no hook or method.
C8_OperationDispatch ==
    (pc # "idle" /\ method = N_post /\ operation # << >>) =>
        /\ N_post \o operation = N_postAddReply
        /\ N_postAddReply \in HandlerClass =>
               /\ raised.error # "InvalidOperationError"
               /\ (pc = "done" /\ raised = NotRaised) =>
                      /\ Occurs("operation")
                      /\ Cardinality({ i \in DOMAIN invoked :
                                         invoked[i] = N_postAddReply }) = 1
        /\ (N_postAddReply \notin HandlerClass
            /\ pc \notin { "init", "guard", "resolve" }
            /\ raised.step \notin { "init", "guard" }) =>
               /\ raised.step = "resolve"
               /\ raised.error = "InvalidOperationError"
               /\ invoked = << >>
               /\ \A st \in HookSteps : ~Occurs(st)

\* postAddReply was called for a POST naming add_reply, on a handler that
\* has no generic post method
C8_Witness ==
    /\ pc = "done"
    /\ raised = NotRaised
    /\ method = N_post
    /\ N_post \notin HandlerClass
    /\ invoked # << >>
    /\ invoked[Len(invoked)] = N_postAddReply

\* the handler has nothing to answer the request with
Unanswerable ==
    \/ method = N_post /\ operation = << >> /\ N_post \notin HandlerClass
    \/ method # N_post /\ method \notin HandlerClass /\ N_all \notin HandlerClass

\* C9: a POST without operation on a handler without post, and any other
\* verb on a handler with neither that method nor all, raises
\* MethodNotAllowedError once init and the guard have passed, before any
\* prepare hook: no hook, method body or cleanup is invoked. The error is
\* raised in no other case.
C9_MethodNotAllowed ==
    /\ (Unanswerable /\ pc \notin { "idle", "init", "guard", "resolve" }
        /\ raised.step \notin { "init", "guard" }) =>
           /\ raised = [step |-> "resolve", error |-> "MethodNotAllowedError",
                        at |-> 2]
           /\ SubSeq(trace, 1, 2) = << "init", "guard" >>
           /\ invoked = << >>
           /\ \A st \in HookSteps : ~Occurs(st)
    /\ raised.error = "MethodNotAllowedError" =>
           (Unanswerable /\ raised.step = "resolve")

\* a GET on a handler that defines prepare and cleanup but neither get nor
\* all ended in MethodNotAllowedError
C9_Witness ==
    /\ pc = "done"
    /\ method = N_get
    /\ raised.error = "MethodNotAllowedError"
    /\ { N_prepare, N_cleanup, N_post } \subseteq HandlerClass

(***************************************************************************)
(* Decorating and calling methods                                          *)
(***************************************************************************)
TotalLen(f) ==
    LET RECURSIVE Sum(_)
        Sum(K) == IF K = {} THEN 0
                  ELSE LET k == CHOOSE x \in K : TRUE
                       IN  Len(f[k]) + Sum(K \ { k })
    IN  Sum(DOMAIN f)

\* the ways the two methods can be written with at most MaxDeclarations
\* decorators
DecoratedPrograms ==
    { p \in [MethodKeys -> SeqsUpTo(Declarations, MaxDeclarations)] :
          TotalLen(p) <= MaxDeclarations }

ParamInit ==
    /\ HandlerClass = {}
    /\ checker = EmptyGuard
    /\ predicate = "none"
    /\ HttpIdle
    /\ SessIdle
    /\ SockIdle
    /\ InitIdle
    /\ FnIdle
    /\ pending \in DecoratedPrograms
    /\ __param = [k \in MethodKeys |-> << >>]
    /\ applied = [k \in MethodKeys |-> << >>]
    /\ lastCall = NotCalled

\* mutant: the declaration is pushed at the end of the list
desc_push(key) ==
    /\ pending[key] # << >>
    /\ LET v == pending[key][Len(pending[key])]
           seeded == IF __param[key] = << >>
                     THEN << DomainIdDescriptor >> ELSE __param[key]
       IN  /\ __param' = [__param EXCEPT ![key] = Append(seeded, v)]
           /\ applied' = [applied EXCEPT ![key] = Append(@, v)]
    /\ pending' = [pending EXCEPT ![key] = SubSeq(@, 1, Len(@) - 1)]
    /\ UNCHANGED << httpVars, sessVars, sockVars, initVars, fnVars, lastCall >>

\* _descriptor(v)'s desc(target, funcName, obj): the decorator nearest to
\* the method is applied first. The first application seeds the list with
\* the domainId descriptor (and wraps the method in the binder).
desc(key) ==
    /\ pending[key] # << >>
    /\ LET v == pending[key][Len(pending[key])]
           seeded == IF __param[key] = << >>
                     THEN << DomainIdDescriptor >> ELSE __param[key]
       IN  /\ __param' = [__param EXCEPT ![key] = Splice1(seeded, v)]
           /\ applied' = [applied EXCEPT ![key] = Append(@, v)]
    /\ pending' = [pending EXCEPT ![key] = SubSeq(@, 1, Len(@) - 1)]
    /\ UNCHANGED << httpVars, sessVars, sockVars, initVars, fnVars, lastCall >>

\* validate(rawArgs): a decorated method is called with the merged args of
\* a request; the original method receives the bound values positionally
validate(key, req) ==
    /\ \A k \in MethodKeys : pending[k] = << >>
    /\ __param[key] # << >>
    /\ LET b == Bind(__param[key], req)
       IN  lastCall' = [key |-> key, req |-> req, outcome |-> b.outcome,
                        field |-> b.field, args |-> b.args, ran |-> b.ran,
                        calls |-> b.calls]
    /\ UNCHANGED << httpVars, sessVars, sockVars, initVars, fnVars, pending, __param, applied >>

ParamNext ==
    \/ \E key \in MethodKeys : desc(key)
    \/ \E key \in MethodKeys, req \in Requests : validate(key, req)

SpecParam == ParamInit /\ [][ParamNext]_vars

Reverse(s) == [i \in 1..Len(s) |-> s[Len(s) + 1 - i]]

\* C10: for every decorated method, the descriptor list is the domainId
\* descriptor followed by the declarations applied so far, last applied
\* first; the domainId descriptor (source route) occurs once, at index 1;
\* and a call that binds passes the original method one value per
\* descriptor, in the order of that list.
C10_DescriptorOrder ==
    /\ \A k \in MethodKeys :
           /\ __param[k] = << >> <=> applied[k] = << >>
           /\ __param[k] # << >> =>
                  /\ __param[k] = << DomainIdDescriptor >> \o Reverse(applied[k])
                  /\ { i \in DOMAIN __param[k] :
                         __param[k][i] = DomainIdDescriptor } = { 1 }
    /\ lastCall.outcome = "called" =>
           LET expected == << DomainIdDescriptor >> \o Reverse(applied[lastCall.key])
           IN  /\ Len(lastCall.args) = Len(expected)
               /\ \A i \in DOMAIN expected :
                      lastCall.args[i] = BindItem(expected[i], lastCall.req).value

\* page, name, type were applied in that order to _prepare and a call
\* passed domainId, type, name, page
C10_Witness ==
    /\ applied[K_prepare] = << D_page, D_name, D_type >>
    /\ __param[K_prepare] = << DomainIdDescriptor, D_type, D_name, D_page >>
    /\ lastCall.key = K_prepare
    /\ lastCall.outcome = "called"
    /\ lastCall.args = << Str(<< "s", "y", "s", "t", "e", "m" >>), Str(<< "n" >>),
                          Str(<< "7" >>), Num(2) >>

\* the raw value the binder reads for the i-th descriptor of the last call
RawOfLastCall(i) ==
    LET item == __param[lastCall.key][i]
    IN  SourceMap(item, lastCall.req)[item.name]

\* C11: in every call of a decorated method, a descriptor marked optional
\* whose raw value is absent or falsy has neither its validator nor its
\* converter called, does not stop the binding (the binder goes on to the
\* next descriptor), and contributes undefined at its position of the
\* arguments the original method receives.
C11_OptionalSkipped ==
    lastCall.outcome # "none" =>
        LET arglist == __param[lastCall.key]
        IN  \A i \in DOMAIN lastCall.ran :
                arglist[i].isOptional /\ Falsy(RawOfLastCall(i)) =>
                    /\ ~lastCall.ran[i].validated
                    /\ ~lastCall.ran[i].converted
                    /\ i < Len(arglist) => Len(lastCall.ran) > i
                    /\ i = Len(arglist) => lastCall.outcome = "called"
                    /\ lastCall.outcome = "called" =>
                           lastCall.args[i] = Undefined

\* _prepare(domainId, type, name, page) is called for the JSON body
\* {"name": 7, "page": 0}: type is absent and page is falsy, both optional
C11_Witness ==
    /\ __param[K_prepare] = << DomainIdDescriptor, D_type, D_name, D_page >>
    /\ lastCall.key = K_prepare
    /\ lastCall.req.body["page"] = Num(0)
    /\ lastCall.req.body["type"] = Undefined
    /\ lastCall.outcome = "called"
    /\ lastCall.args = << Str(<< "s", "y", "s", "t", "e", "m" >>), Undefined,
                          Str(<< "7" >>), Undefined >>
    /\ lastCall.ran[4] = [validated |-> FALSE, converted |-> FALSE]

\* the descriptors of the last call the binding has to fail at: a required
\* one whose raw value is absent, or one whose validator is run on a
\* present value and rejects it
RejectedOfLastCall ==
    LET arglist == __param[lastCall.key]
    IN  { i \in DOMAIN arglist :
            LET item == arglist[i]
                raw == RawOfLastCall(i)
            IN  \/ ~item.isOptional /\ raw = Undefined
                \/ /\ raw # Undefined
                   /\ ~(item.isOptional /\ Falsy(raw))
                   /\ item.validate # "none"
                   /\ ~Validate(item.validate, raw) }

\* C12: a call of a decorated method fails with a ValidationError naming
\* the first descriptor that is required with an absent raw value or whose
\* validator rejects a present value, and then the original method is not
\* invoked; when there is no such descriptor the original method is
\* invoked: a required value that is present is not rejected as absent,
\* whatever its content.
C12_RequiredValidation ==
    lastCall.outcome # "none" =>
        LET arglist == __param[lastCall.key]
            failing == RejectedOfLastCall
        IN  /\ failing # {} =>
                   /\ lastCall.outcome = "ValidationError"
                   /\ lastCall.args = << >>
                   /\ \E i \in failing :
                          /\ \A j \in failing : i <= j
                          /\ lastCall.field = arglist[i].name
            /\ failing = {} => lastCall.outcome = "called"

\* C13: when a dispatched request has ended, by the normal sequence or
\* through onerror, its session has been written to the session store and
\* the sid cookie has been emitted, whatever body the handler left in the
\* response. (Requests the store rejected the write of, and requests whose
\* onerror itself threw, are left aside.)
C13_SessionPersisted ==
    pc = "done" /\ ~storeRejected /\ ~onerrorThrew => cookie

(***************************************************************************)
(* Requests as the session store and the browser see them                  *)
(***************************************************************************)
\* requests served one after the other in a behaviour
MaxRequests == 2

SessionInit ==
    /\ HandlerClass = {}
    /\ checker = EmptyGuard
    /\ predicate = "none"
    /\ HttpIdle
    /\ ParamIdle
    /\ SessIdle
    /\ SockIdle
    /\ InitIdle
    /\ FnIdle

\* new HandlerClass(ctx) for a request of the browser, which presents the
\* sid cookie it holds: this.session = {}
NewHandler(ip, ua) ==
    /\ spc = "idle"
    /\ sreqCount < MaxRequests
    /\ sreq' = [sid |-> jar.sid, ip |-> ip, ua |-> ua,
                idsAtStart |-> IdsOf(tokens), idsAtGet |-> {}]
    /\ session' = EmptySession
    /\ resolved' = EmptySession
    /\ sbody' = "{}"
    /\ csrfToken' = NoToken
    /\ spc' = "getSession"
    /\ UNCHANGED << httpVars, paramVars, sockVars, initVars, fnVars, tokens, now, idsAssigned, jar,
                    csrfCache, csrfIssued, last, prev, sreqCount >>

\* await this.getSession(), the first part of init
RunGetSession ==
    /\ spc = "getSession"
    /\ session' = getSession(tokens, sreq.sid)
    /\ resolved' = session'
    /\ sreq' = [sreq EXCEPT !.idsAtGet = IdsOf(tokens)]
    /\ spc' = "init"
    /\ UNCHANGED << httpVars, paramVars, sockVars, initVars, fnVars, tokens, now, idsAssigned, jar,
                    sbody, csrfToken, csrfCache, csrfIssued, last, prev,
                    sreqCount >>

\* the rest of init: the user of the session is looked up, a session whose
\* user is not found becomes anonymous, and the CSRF token is derived
ResolveUser(userFound, random) ==
    /\ spc = "init"
    /\ userFound \/ session.uid # 0
    /\ LET sess == IF userFound THEN session
                   ELSE [session EXCEPT !.uid = 0, !.scope = "all"]
           key == IF sess._id # NoId THEN sess._id ELSE random
           res == getCsrfToken(csrfCache, key)
       IN  /\ session' = sess
           /\ csrfToken' = res.token
           /\ csrfCache' = res.cache
           /\ csrfIssued' = csrfIssued \cup { << key, res.token, res.hit >> }
    /\ spc' = "method"
    /\ UNCHANGED << httpVars, paramVars, sockVars, initVars, fnVars, tokens, now, idsAssigned, jar, sreq,
                    resolved, sbody, last, prev, sreqCount >>

\* what a method body does to the session and to the response body: nothing,
\* log a user in (with or without "remember me"), send a file, or throw
\* (onerror then sets the body to the error)
SessionEffects == { "none", "login", "login.save", "attachment", "throw" }

ApplySessionEffect(sess, eff) ==
    CASE eff = "login" -> [sess EXCEPT !.uid = 2, !.save = FALSE]
      [] eff = "login.save" -> [sess EXCEPT !.uid = 2, !.save = TRUE]
      [] OTHER -> sess

\* a method body, behind checkCsrfToken when it was declared with
\* @requireCsrfToken: sent is args.csrfToken
RunSessionMethod(eff, protected, sent) ==
    /\ spc = "method"
    /\ LET res == getCsrfToken(csrfCache, session._id)
           refused == protected /\ res.token # sent
       IN  /\ csrfCache' = IF protected THEN res.cache ELSE csrfCache
           /\ csrfIssued' = IF protected
                            THEN csrfIssued \cup { << session._id, res.token, res.hit >> }
                            ELSE csrfIssued
           /\ session' = IF refused THEN session
                         ELSE ApplySessionEffect(session, eff)
           /\ sbody' = IF refused \/ eff = "throw"
                       THEN onerrorResponse(NewResponse, "Error").body
                       ELSE IF eff = "attachment" THEN attachment(NewResponse).body
                       ELSE sbody
    /\ spc' = "finish"
    /\ UNCHANGED << httpVars, paramVars, sockVars, initVars, fnVars, tokens, now, idsAssigned, jar, sreq,
                    resolved, csrfToken, last, prev, sreqCount >>

\* await this.finish(), from handle() or from onerror: with a body,
\* saveCookie writes the session and sets the cookie, which the browser keeps
SessionFinish ==
    /\ spc = "finish"
    /\ LET f == finish([NewResponse EXCEPT !.body = sbody], NewCtxResponse,
                       FALSE, TRUE, FALSE, FALSE, FALSE)
           newId == << "sid", idsAssigned + 1 >>
           sc == saveCookie(session, tokens, sreq.ip, sreq.ua, now, newId)
       IN  IF f.cookie
           THEN /\ sc.call.op = "add" => idsAssigned < MaxTokens
                /\ session' = sc.session
                /\ tokens' = sc.tokens
                /\ idsAssigned' = IF sc.call.op = "add"
                                  THEN idsAssigned + 1 ELSE idsAssigned
                /\ jar' = sc.cookie
                /\ last' = [n |-> sreqCount + 1, arrived |-> sreq.sid,
                            idsAtGet |-> sreq.idsAtGet,
                            resolved |-> resolved, before |-> session,
                            idsBefore |-> IdsOf(tokens),
                            idsAfter |-> IdsOf(sc.tokens),
                            created |-> IdsOf(sc.tokens) \ sreq.idsAtStart,
                            call |-> sc.call, cookie |-> sc.cookie,
                            session |-> sc.session, ip |-> sreq.ip,
                            ua |-> sreq.ua]
           ELSE /\ last' = [n |-> sreqCount + 1, arrived |-> sreq.sid,
                            idsAtGet |-> sreq.idsAtGet,
                            resolved |-> resolved, before |-> session,
                            idsBefore |-> IdsOf(tokens),
                            idsAfter |-> IdsOf(tokens),
                            created |-> IdsOf(tokens) \ sreq.idsAtStart,
                            call |-> NoStoreCall, cookie |-> NoCookie,
                            session |-> session, ip |-> sreq.ip, ua |-> sreq.ua]
                /\ UNCHANGED << session, tokens, idsAssigned, jar >>
    /\ prev' = last
    /\ sreqCount' = sreqCount + 1
    /\ spc' = "idle"
    /\ UNCHANGED << httpVars, paramVars, sockVars, initVars, fnVars, now, sreq, resolved, sbody, csrfToken,
                    csrfCache, csrfIssued >>

\* time passes; the store drops the records that have expired
Tick ==
    /\ now < MaxTime
    /\ now' = now + 1
    /\ tokens' = tokenExpire(tokens, now + 1)
    /\ UNCHANGED << httpVars, paramVars, sockVars, initVars, fnVars, idsAssigned, jar, spc, sreq, session,
                    resolved, sbody, csrfToken, csrfCache, csrfIssued, last,
                    prev, sreqCount >>

SentTokens == { hash("csrf_token", id) : id \in TokenIds } \cup { NoToken }

SessionNext ==
    \/ \E r \in Requesters : NewHandler(r.ip, r.ua)
    \/ RunGetSession
    \/ \E userFound \in BOOLEAN, random \in RandomKeys :
          ResolveUser(userFound, random)
    \/ \E eff \in SessionEffects, protected \in BOOLEAN, sent \in SentTokens :
          RunSessionMethod(eff, protected, sent)
    \/ SessionFinish
    \/ Tick

SpecSession == SessionInit /\ [][SessionNext]_vars

\* C14: a request that arrived without sid cookie has, when it has ended,
\* created exactly one record in the store and set the sid cookie to that
\* record's id; and the request after it, presenting that cookie while the
\* record is still in the store, resolves a session of that id and of the
\* uid the first request ended with, and updates that record instead of
\* creating one.
C14_SessionRoundTrip ==
    /\ last.n > 0 /\ last.arrived = NoId =>
           /\ Cardinality(last.created) = 1
           /\ last.cookie.sid \in last.created
    /\ /\ prev.n > 0 /\ prev.arrived = NoId
       /\ prev.cookie.sid # NoId
       /\ last.arrived = prev.cookie.sid
       /\ last.arrived \in last.idsAtGet
       => /\ last.resolved._id = prev.cookie.sid
          /\ last.resolved.uid = prev.session.uid
          /\ last.call.op = "update"
          /\ last.call.id = prev.cookie.sid
          /\ last.created = {}

\* C15: when saveCookie has written a session: for a session that had an
\* id, update was called for that id and the store holds the records it
\* held; for a session without id, add was called, the store holds one
\* record more, and the session has that record's id. The expiry passed is
\* the long one when session.save is set and the short one otherwise, and
\* updateIp and updateUa are the requester's, in the call and in the
\* record.
C15_SaveCookiePersists ==
    last.call.op # "none" =>
        /\ last.before._id # NoId =>
               /\ last.call.op = "update"
               /\ last.call.id = last.before._id
               /\ last.idsAfter = last.idsBefore
               /\ last.session._id = last.before._id
        /\ last.before._id = NoId =>
               /\ last.call.op = "add"
               /\ last.session._id # NoId
               /\ last.session._id \notin last.idsBefore
               /\ last.idsAfter = last.idsBefore \cup { last.session._id }
        /\ last.call.ttl = IF last.before.save THEN session_expire_seconds
                           ELSE session_unsaved_expire_seconds
        /\ last.call.fields.updateIp = last.ip
        /\ last.call.fields.updateUa = last.ua
        /\ \A d \in tokens :
               d._id = last.session._id =>
                   /\ d.updateIp = last.ip
                   /\ d.updateUa = last.ua
                   /\ d.uid = last.before.uid
                   /\ d.save = last.before.save

\* a saved session created by one requester was updated for another one,
\* with the long expiry
C15_Witness ==
    /\ last.call.op = "update"
    /\ last.before.save
    /\ last.call.ttl = session_expire_seconds
    /\ prev.call.op = "add"
    /\ prev.call.ttl = session_unsaved_expire_seconds
    /\ \E d \in tokens :
           /\ d._id = last.call.id
           /\ d.createIp = prev.ip
           /\ d.updateIp = last.ip
           /\ last.ip # prev.ip

\* C16: whenever saveCookie has set the sid cookie, its value is the id of
\* the session it wrote (the id update was called for, or the id of the
\* record added), and it has the expires and max-age attributes exactly
\* when the session's save flag is set.
C16_SidCookie ==
    last.call.op # "none" =>
        /\ last.cookie.sid # NoId
        /\ last.call.op = "update" => last.cookie.sid = last.call.id
        /\ last.call.op = "add" =>
               last.idsAfter \ last.idsBefore = { last.cookie.sid }
        /\ last.cookie.hasExpires <=> last.session.save
        /\ last.cookie.hasMaxAge <=> last.session.save
        /\ jar = last.cookie

\* one request got a cookie without expiry, the next one (a login with
\* "remember me") the same sid with expires and max-age
C16_Witness ==
    /\ prev.call.op = "add"
    /\ ~prev.cookie.hasExpires /\ ~prev.cookie.hasMaxAge
    /\ last.call.op = "update"
    /\ last.cookie.sid = prev.cookie.sid
    /\ last.cookie.hasExpires /\ last.cookie.hasMaxAge
    /\ last.cookie.maxAge = session_expire_seconds

\* no id was given two different tokens
CsrfDeterministic ==
    \A p \in csrfIssued, q \in csrfIssued : p[1] = q[1] => p[2] = q[2]

ConnFragmentLists == { << >> } \cup { << kind >> : kind \in FragmentKinds }

SocketInit ==
    /\ HandlerClass \in SUBSET ConnMemberNames
    /\ \E frags \in ConnFragmentLists :
          /\ checker = Checker(frags)
          /\ predicate = RegisteredPredicate(frags)
    /\ HttpIdle
    /\ ParamIdle
    /\ tokens = SocketSessions
    /\ SessHandlerIdle
    /\ SockIdle
    /\ InitIdle
    /\ FnIdle

\* sock.on('connection'): new RouteConnHandler(conn), then the listener
\* waits for the first frame with conn.once('data', r)
Accept ==
    /\ cpc = "idle"
    /\ cpc' = "awaitCookie"
    /\ connOpen' = TRUE
    /\ listeners' = { "once:data" }
    /\ UNCHANGED << httpVars, paramVars, sessVars, initVars, fnVars, cookie0, csession, cuser,
                    craised, clog, sentFrames, messages, closeCode, uncaught >>

\* the client sends a frame: the 'data' event goes to the listeners
\* registered at that moment. The once listener takes it as the cookie; the
\* message listener calls h.message(JSON.parse(data)); with no listener the
\* frame is lost.
ClientSend(data) ==
    /\ connOpen
    /\ sentFrames < MaxFrames
    /\ sentFrames' = sentFrames + 1
    /\ IF "once:data" \in listeners
       THEN /\ cookie0' = data
            /\ listeners' = listeners \ { "once:data" }
            /\ cpc' = "init"
            /\ clog' = Append(clog, "frame:cookie")
            /\ UNCHANGED << messages, uncaught >>
       ELSE IF "data" \in listeners
       THEN IF JSONparses(data)
            THEN /\ messages' = Append(messages, data)
                 /\ clog' = Append(clog, "message")
                 /\ UNCHANGED << cookie0, listeners, cpc, uncaught >>
            ELSE /\ uncaught' = TRUE
                 /\ clog' = Append(clog, "frame:unparsed")
                 /\ UNCHANGED << cookie0, listeners, cpc, messages >>
       ELSE /\ clog' = Append(clog, "frame:lost")
            /\ UNCHANGED << cookie0, listeners, cpc, messages, uncaught >>
    /\ UNCHANGED << httpVars, paramVars, sessVars, initVars, fnVars, connOpen, csession, cuser,
                    craised, closeCode >>

\* mutant: a session whose user is not found goes on as authenticated
ConnInit_anyUser(blacklisted, userFound) ==
    /\ cpc = "init"
    /\ clog' = Append(clog, "init")
    /\ LET b == Bind(ConnInitParams, ConnArgs(cookie0))
       IN  IF b.outcome = "ValidationError"
           THEN /\ craised' = "ValidationError"
                /\ cpc' = "onerror"
                /\ UNCHANGED << csession, cuser >>
           ELSE LET sess == connGetSession(tokens, b.args[2].s)
                IN  /\ csession' = sess
                    /\ IF blacklisted
                       THEN /\ craised' = "BlacklistedError"
                            /\ cpc' = "onerror"
                            /\ UNCHANGED cuser
                       ELSE /\ cuser' = IF userFound THEN "resolved" ELSE "null"
                            /\ cpc' = "auth"
                            /\ UNCHANGED craised
    /\ UNCHANGED << httpVars, paramVars, sessVars, initVars, fnVars, connOpen, listeners, cookie0,
                    sentFrames, messages, closeCode, uncaught >>

\* await h.init(args): the binder of @param('cookie', Types.String), then
\* the domain and the session, the blacklist, the user
ConnInit(blacklisted, userFound) ==
    /\ cpc = "init"
    /\ clog' = Append(clog, "init")
    /\ LET b == Bind(ConnInitParams, ConnArgs(cookie0))
       IN  IF b.outcome = "ValidationError"
           THEN /\ craised' = "ValidationError"
                /\ cpc' = "onerror"
                /\ UNCHANGED << csession, cuser >>
           ELSE LET sess == connGetSession(tokens, b.args[2].s)
                IN  /\ csession' = sess
                    /\ IF blacklisted
                       THEN /\ craised' = "BlacklistedError"
                            /\ cpc' = "onerror"
                            /\ UNCHANGED cuser
                       ELSE IF ~userFound
                       THEN /\ cuser' = "null"
                            /\ craised' = "UserNotFoundError"
                            /\ cpc' = "onerror"
                       ELSE /\ cuser' = "resolved"
                            /\ cpc' = "auth"
                            /\ UNCHANGED craised
    /\ UNCHANGED << httpVars, paramVars, sessVars, initVars, fnVars, connOpen, listeners, cookie0,
                    sentFrames, messages, closeCode, uncaught >>

\* mutant: the guard runs before the acknowledgement is written
ConnAuth_guardFirst ==
    /\ cpc = "auth"
    /\ \E hasPerm \in BOOLEAN, hasPriv \in BOOLEAN :
          LET res == check(checker, hasPerm, hasPriv)
          IN  IF res.error = NoError
              THEN /\ clog' = clog \o << "guard", "write:auth" >>
                   /\ cpc' = "_prepare"
                   /\ UNCHANGED craised
              ELSE /\ clog' = Append(clog, "guard")
                   /\ craised' = res.error
                   /\ cpc' = "onerror"
    /\ UNCHANGED << httpVars, paramVars, sessVars, initVars, fnVars, connOpen, listeners, cookie0,
                    csession, cuser, sentFrames, messages, closeCode, uncaught >>

\* conn.write(JSON.stringify({ event: 'auth' })); checker.call(h)
ConnAuth ==
    /\ cpc = "auth"
    /\ clog' = clog \o << "write:auth", "guard" >>
    /\ \E hasPerm \in BOOLEAN, hasPriv \in BOOLEAN :
          LET res == check(checker, hasPerm, hasPriv)
          IN  IF res.error = NoError
              THEN cpc' = "_prepare" /\ UNCHANGED craised
              ELSE craised' = res.error /\ cpc' = "onerror"
    /\ UNCHANGED << httpVars, paramVars, sessVars, initVars, fnVars, connOpen, listeners, cookie0,
                    csession, cuser, sentFrames, messages, closeCode, uncaught >>

\* if (h[member]) await h[member](args)
ConnHook(step, member, next) ==
    /\ cpc = step
    /\ IF member \in HandlerClass
       THEN /\ clog' = Append(clog, step)
            /\ \/ cpc' = next /\ UNCHANGED craised
               \/ \E e \in HookErrors : craised' = e /\ cpc' = "onerror"
       ELSE cpc' = next /\ UNCHANGED << clog, craised >>
    /\ UNCHANGED << httpVars, paramVars, sessVars, initVars, fnVars, connOpen, listeners, cookie0,
                    csession, cuser, sentFrames, messages, closeCode, uncaught >>

Conn_prepare == ConnHook("_prepare", N__prepare, "prepare")

ConnPrepare == ConnHook("prepare", N_prepare, "listen")

\* conn.on('data', ...) (h.message is defined by ConnectionHandler) and
\* conn.on('close', ...)
ConnListen ==
    /\ cpc = "listen"
    /\ listeners' = listeners \cup { "data", "close" }
    /\ clog' = Append(clog, "listen")
    /\ cpc' = "active"
    /\ UNCHANGED << httpVars, paramVars, sessVars, initVars, fnVars, connOpen, cookie0, csession,
                    cuser, craised, sentFrames, messages, closeCode, uncaught >>

\* ConnectionHandler.onerror reads err.name, err.params and calls
\* err.toString(): a thrown null makes it throw in turn
connOnerrorThrows(e) == e = ThrownPrimitive

\* the code ConnectionHandler.onerror closes with
onerrorCloseCode == 1001

\* catch (e) { logger.warn(e); await h.onerror(e); }
ConnOnerror ==
    /\ cpc = "onerror"
    /\ IF connOnerrorThrows(craised)
       THEN /\ clog' = Append(clog, "onerror")
            /\ uncaught' = TRUE
            /\ cpc' = "stuck"
            /\ UNCHANGED << connOpen, closeCode >>
       ELSE /\ clog' = clog \o << "onerror", "write:error", "close" >>
            /\ closeCode' = onerrorCloseCode
            /\ connOpen' = FALSE
            /\ cpc' = "failed"
            /\ UNCHANGED uncaught
    /\ UNCHANGED << httpVars, paramVars, sessVars, initVars, fnVars, listeners, cookie0, csession,
                    cuser, craised, sentFrames, messages >>

\* the client goes away: the 'close' event runs the close listener if the
\* handshake got as far as registering it. A cleanup that throws rejects
\* the listener before h.finish is looked up.
ClientClose(cleanupThrows) ==
    /\ connOpen
    /\ connOpen' = FALSE
    /\ cleanupThrows => "close" \in listeners /\ N_cleanup \in HandlerClass
    /\ IF "close" \in listeners
       THEN IF cleanupThrows
            THEN /\ clog' = clog \o << "client.close", "cleanup" >>
                 /\ uncaught' = TRUE
            ELSE /\ clog' = clog \o << "client.close" >>
                               \o (IF N_cleanup \in HandlerClass
                                   THEN << "cleanup" >> ELSE << >>)
                               \o (IF N_finish \in HandlerClass
                                   THEN << "finish" >> ELSE << >>)
                 /\ UNCHANGED uncaught
       ELSE /\ clog' = Append(clog, "client.close")
            /\ UNCHANGED uncaught
    /\ UNCHANGED << httpVars, paramVars, sessVars, initVars, fnVars, cpc, listeners, cookie0,
                    csession, cuser, craised, sentFrames, messages, closeCode >>

SocketNext ==
    \/ Accept
    \/ \E data \in Frames : ClientSend(data)
    \/ \E blacklisted \in BOOLEAN, userFound \in BOOLEAN :
          ConnInit(blacklisted, userFound)
    \/ ConnAuth
    \/ Conn_prepare
    \/ ConnPrepare
    \/ ConnListen
    \/ ConnOnerror
    \/ \E cleanupThrows \in BOOLEAN : ClientClose(cleanupThrows)

SpecSocket == SocketInit /\ [][SocketNext]_vars

(***************************************************************************)
(* The socket handshake                                                    *)
(***************************************************************************)
\* where an entry stands in the connection's log
At(entry) == { i \in 1..Len(clog) : clog[i] = entry }

\* the hooks of the handshake that run after init
HandshakeSteps == { "guard", "_prepare", "prepare" }

\* C18: a connection whose first frame is a cookie that resolves a session
\* and a user is written exactly one auth frame, after init and before the
\* guard, _prepare and prepare; frames are dispatched to the message hook
\* only after the listener was registered, which is after the hooks the
\* handler defines have completed, and from then on no frame is lost.
C18_SocketHandshake ==
    /\ Cardinality(At("write:auth")) <= 1
    /\ At("write:auth") # {} => cuser = "resolved"
    /\ (cuser = "resolved" /\ cpc # "auth") => Cardinality(At("write:auth")) = 1
    /\ \A i \in At("write:auth") :
          /\ \E j \in At("init") : j < i
          /\ \A k \in 1..Len(clog) : clog[k] \in HandshakeSteps => i < k
    /\ \A m \in At("message") :
          \E l \in At("listen") :
              /\ l < m
              /\ N__prepare \in HandlerClass => \E k \in At("_prepare") : k < l
              /\ N_prepare \in HandlerClass => \E k \in At("prepare") : k < l
              /\ \A k \in 1..Len(clog) : clog[k] \in HandshakeSteps => k < l
    /\ \A l \in At("listen"), k \in 1..Len(clog) :
          l < k => clog[k] # "frame:lost"
    /\ Len(messages) = Cardinality(At("message"))

C18_Witness ==
    /\ cpc = "active"
    /\ csession.uid = 2
    /\ { N__prepare, N_prepare } \subseteq HandlerClass
    /\ Len(messages) = 2
    /\ clog = << "frame:cookie", "init", "write:auth", "guard", "_prepare",
                 "prepare", "listen", "message", "message" >>

\* C19: a connection whose user is not found or whose address is
\* blacklisted is never written an auth frame, never runs the guard,
\* _prepare, prepare or message, never registers the message listener, and
\* is closed by error recovery.
C19_RejectedNeverActive ==
    (cuser = "null" \/ craised = "BlacklistedError") =>
        /\ craised \in ConnInitErrors
        /\ cpc \in { "onerror", "failed" }
        /\ At("write:auth") = {}
        /\ \A k \in 1..Len(clog) :
              clog[k] \notin HandshakeSteps \cup { "listen", "message" }
        /\ messages = << >>
        /\ listeners \cap { "data", "close" } = {}
        /\ cpc = "failed" => ~connOpen /\ closeCode # 0

C19_Witness ==
    /\ cuser = "null"
    /\ cpc = "failed"
    /\ ~connOpen
    /\ "frame:lost" \in { clog[k] : k \in 1..Len(clog) }

\* C20: once error recovery has run for a failed handshake, exactly one
\* error frame was written, the close follows it, nothing is written after
\* the close, and the close code is the policy-violation code (1008).
C20_HandshakeFailure ==
    (craised # NoError /\ cpc \in { "failed", "stuck" }) =>
        /\ Cardinality(At("write:error")) = 1
        /\ \A i \in At("write:error") : \E c \in At("close") : i < c
        /\ \A c \in At("close"), k \in 1..Len(clog) :
              c < k => clog[k] \notin { "write:auth", "write:error" }
        /\ closeCode = 1008

\* C21: once the transport of an accepted connection has closed, cleanup
\* (if defined) has run exactly once and then finish (if defined) exactly
\* once, whenever in the connection's life the close happened.
C21_CloseRunsHooks ==
    (cpc # "idle" /\ ~connOpen) =>
        /\ N_cleanup \in HandlerClass => Cardinality(At("cleanup")) = 1
        /\ N_finish \in HandlerClass => Cardinality(At("finish")) = 1
        /\ \A c \in At("cleanup"), f \in At("finish") : c < f

\* C22: on a connection that was acknowledged as authenticated, every
\* frame after the cookie frame reached the listener that parses it and
\* dispatches it to the message hook, exactly once, frames that arrived
\* during init or prepare included.
C22_EveryFrameDispatched ==
    At("write:auth") # {} =>
        /\ At("frame:lost") = {}
        /\ Len(messages) = Cardinality(At("message"))

\* C23: a request that failed in a lifecycle step is answered with the
\* error's own status code when the error is user-facing and with 500
\* otherwise, whatever the handler had left in its response.
C23_ErrorStatus ==
    (pc = "done" /\ raised.error # NoError) =>
        ctxResponse.status = ErrorStatus(raised.error)

(***************************************************************************)
(* Handler.init step by step, inside handle()                              *)
(***************************************************************************)
LookupsInit ==
    /\ HandlerClass = MemberNames
    /\ \E frags \in FragmentLists :
          /\ checker = Checker(frags)
          /\ predicate = RegisteredPredicate(frags)
    /\ HttpIdle
    /\ ParamIdle
    /\ SessIdle
    /\ SockIdle
    /\ InitIdle
    /\ FnIdle

\* the rest of the HTTP state, which init does not touch
initFrame ==
    << registration, request, response, ctxResponse, cookie, storeRejected,
       guardEvaluated, invoked, renderCaught, onerrorCalls, onerrorThrew >>

\* await h.init(args) is entered: domain.get(domainId), this.getSession()
\* and this.getBdoc() are started and Promise.all awaits them
InitCall ==
    /\ pc = "init"
    /\ ipc = "idle"
    /\ trace' = Append(trace, "init")
    /\ lookups' = [l \in LookupNames |-> "pending"]
    /\ ipc' = "awaitAll"
    /\ UNCHANGED << paramVars, sessVars, sockVars, fnVars, initFrame, pc, user, raised,
                    idomain, isession, iuser >>

\* what a lookup that settles resumes: nothing unless init still awaits
\* Promise.all; a rejection goes to the catch of handle, fulfilment assigns
\* this.domain and starts the lookup of the user
AfterLookup(settled) ==
    /\ trace' = trace
    /\ IF ipc = "awaitAll" /\ PromiseAll(settled) = "rejected"
       THEN /\ ipc' = "rejected"
            /\ Throw("init", "BlacklistedError")
            /\ UNCHANGED idomain
       ELSE IF ipc = "awaitAll" /\ PromiseAll(settled) = "fulfilled"
       THEN /\ idomain' = settled.domain
            /\ ipc' = IF settled.domain = "null" THEN "sysUser" ELSE "user"
            /\ UNCHANGED << pc, raised >>
       ELSE UNCHANGED << ipc, idomain, pc, raised >>

\* domain.get(domainId) fulfils with the domain or with null
domain_get(found) ==
    /\ lookups.domain = "pending"
    /\ LET settled == [lookups EXCEPT !.domain = IF found THEN "doc" ELSE "null"]
       IN  lookups' = settled /\ AfterLookup(settled)
    /\ UNCHANGED << paramVars, sessVars, sockVars, fnVars, initFrame, user, isession,
                    iuser >>

\* this.getSession() fulfils: this.session is the stored session or
\* { uid: 0 }
getSessionSettles(stored) ==
    /\ lookups.session = "pending"
    /\ isession' = IF stored THEN "loaded" ELSE "anonymous"
    /\ LET settled == [lookups EXCEPT !.session = "done"]
       IN  lookups' = settled /\ AfterLookup(settled)
    /\ UNCHANGED << paramVars, sessVars, sockVars, fnVars, initFrame, user, iuser >>

\* this.getBdoc() rejects with BlacklistedError when blacklist.get finds
\* the address, and fulfils otherwise
getBdoc(blacklisted) ==
    /\ lookups.bdoc = "pending"
    /\ LET settled == [lookups EXCEPT
                          !.bdoc = IF blacklisted THEN "rejected" ELSE "clear"]
       IN  lookups' = settled /\ AfterLookup(settled)
    /\ UNCHANGED << paramVars, sessVars, sockVars, fnVars, initFrame, user, isession,
                    iuser >>

\* mutant: NotFoundError is thrown without the anonymous fallback
getByIdSystem_noFallback(found) ==
    /\ ipc = "sysUser"
    /\ trace' = trace
    /\ iuser' = [who |-> IF found THEN "session" ELSE "null", domain |-> "system"]
    /\ user' = IF found THEN "resolved" ELSE user
    /\ ipc' = "rejected"
    /\ Throw("init", "NotFoundError")
    /\ UNCHANGED << paramVars, sessVars, sockVars, fnVars, initFrame, lookups, idomain,
                    isession >>

\* if (!this.domain): this.user = await user.getById('system',
\* this.session.uid); a user that is found is followed by the throw
getByIdSystem(found) ==
    /\ ipc = "sysUser"
    /\ trace' = trace
    /\ IF found
       THEN /\ iuser' = [who |-> "session", domain |-> "system"]
            /\ user' = "resolved"
            /\ ipc' = "rejected"
            /\ Throw("init", "NotFoundError")
       ELSE /\ iuser' = [who |-> "null", domain |-> "system"]
            /\ ipc' = "sysUser0"
            /\ UNCHANGED << user, pc, raised >>
    /\ UNCHANGED << paramVars, sessVars, sockVars, fnVars, initFrame, lookups, idomain,
                    isession >>

\* if (!this.user) this.user = await user.getById('system', 0);
\* throw new NotFoundError(domainId)
getByIdSystem0 ==
    /\ ipc = "sysUser0"
    /\ trace' = trace
    /\ iuser' = [who |-> "anonymous", domain |-> "system"]
    /\ user' = "resolved"
    /\ ipc' = "rejected"
    /\ Throw("init", "NotFoundError")
    /\ UNCHANGED << paramVars, sessVars, sockVars, fnVars, initFrame, lookups, idomain,
                    isession >>

\* this.session.uid = 0; this.session.scope = PERM.PERM_ALL.toString():
\* the session object stays the one getSession assigned
ResetSession(s) == IF s = "loaded" THEN "loadedReset" ELSE "anonymousReset"

\* the session has uid 0 and the scope of all permissions
IsReset(s) == s \in { "loadedReset", "anonymousReset" }

\* mutant: init goes on with the user it did not find
getById_noFallback(found) ==
    /\ ipc = "user"
    /\ iuser' = [who |-> IF found THEN "session" ELSE "null", domain |-> "request"]
    /\ user' = IF found THEN "resolved" ELSE user
    /\ ipc' = "resolved"
    /\ pc' = "guard"
    /\ UNCHANGED isession
    /\ UNCHANGED << paramVars, sessVars, sockVars, fnVars, initFrame, trace, raised,
                    lookups, idomain >>

\* this.user = await user.getById(domainId, this.session.uid, scope); when
\* it is not found the session is reset to uid 0 with the scope of all
\* permissions and the lookup is repeated
getById(found) ==
    /\ ipc = "user"
    /\ IF found
       THEN /\ iuser' = [who |-> "session", domain |-> "request"]
            /\ user' = "resolved"
            /\ ipc' = "resolved"
            /\ pc' = "guard"
            /\ UNCHANGED isession
       ELSE /\ iuser' = [who |-> "null", domain |-> "request"]
            /\ isession' = ResetSession(isession)
            /\ ipc' = "userFallback"
            /\ UNCHANGED << user, pc >>
    /\ UNCHANGED << paramVars, sessVars, sockVars, fnVars, initFrame, trace, raised,
                    lookups, idomain >>

\* the second getById, with uid 0; the rest of init awaits nothing
getByIdFallback ==
    /\ ipc = "userFallback"
    /\ iuser' = [who |-> "anonymous", domain |-> "request"]
    /\ user' = "resolved"
    /\ ipc' = "resolved"
    /\ pc' = "guard"
    /\ UNCHANGED << paramVars, sessVars, sockVars, fnVars, initFrame, trace, raised,
                    lookups, idomain, isession >>

LookupsNext ==
    \/ \E m \in Verbs, op \in BodyOperations, j \in BOOLEAN : Dispatch(m, op, j)
    \/ InitCall
    \/ \E found \in BOOLEAN : domain_get(found)
    \/ \E stored \in BOOLEAN : getSessionSettles(stored)
    \/ \E blacklisted \in BOOLEAN : getBdoc(blacklisted)
    \/ \E found \in BOOLEAN : getByIdSystem(found)
    \/ getByIdSystem0
    \/ \E found \in BOOLEAN : getById(found)
    \/ getByIdFallback
    \/ RunGuard
    \/ ResolveMethod
    \/ Run_prepare
    \/ RunPrepare
    \/ RunMethod
    \/ RunOperation
    \/ RunCleanup
    \/ RunFinish
    \/ RunOnerror

SpecInit == LookupsInit /\ [][LookupsNext]_vars

\* the steps of handle that follow init and precede finish
BusinessSteps ==
    { "guard", "_prepare", "prepare", "method", "operation", "cleanup" }

\* C24: once the blacklist lookup of a request has found its address, the
\* request never starts the guard, _prepare, prepare, a method body or
\* cleanup, in whatever order the three lookups settle, and what reaches
\* the catch of handle is BlacklistedError raised by init.
C24_BlacklistShortCircuit ==
    lookups.bdoc = "rejected" =>
        /\ \A i \in 1..Len(trace) : trace[i] \notin BusinessSteps
        /\ invoked = << >>
        /\ guardEvaluated = << >>
        /\ pc \in { "onerror", "done" }
        /\ raised.step = "init" /\ raised.error = "BlacklistedError"

C24_Witness ==
    /\ lookups.bdoc = "rejected"
    /\ lookups.domain = "doc"
    /\ isession = "loaded"
    /\ pc = "done"
    /\ onerrorCalls = 1

\* C25: when the domain of the request does not exist, init raises
\* NotFoundError only after this.user was resolved in the system domain
\* (the user of the session, or the anonymous user when that one is not
\* found); no step after init runs and onerror is called once.
C25_MissingDomain ==
    /\ (idomain = "null" /\ pc \in { "onerror", "done" }) =>
          /\ raised.step = "init" /\ raised.error = "NotFoundError"
          /\ user = "resolved"
          /\ iuser.domain = "system"
          /\ iuser.who \in { "session", "anonymous" }
          /\ \A i \in 1..Len(trace) : trace[i] \notin BusinessSteps
          /\ invoked = << >>
          /\ onerrorCalls = IF pc = "done" THEN 1 ELSE 0
    /\ idomain = "null" => pc \in { "init", "onerror", "done" }
    /\ raised.error = "NotFoundError" => idomain = "null"

C25_Witness ==
    /\ idomain = "null"
    /\ iuser = [who |-> "anonymous", domain |-> "system"]
    /\ raised.error = "NotFoundError"
    /\ pc = "done"
    /\ onerrorCalls = 1

(***************************************************************************)
(* Handler.renderBody on its own                                           *)
(***************************************************************************)
\* responses a handler can leave for finish: a truthy body, with or
\* without a type, a template and a redirect of its own
RenderResponses ==
    { [NewResponse EXCEPT !.body = b, !.type = t, !.template = tp,
                          !.redirect = rd] :
        b \in { "{}", "data" }, t \in { "", "text/markdown" },
        tp \in { "", "page.html" }, rd \in { "", "/url" } }

\* request.json, query.noTemplate, query.template
RenderRequests ==
    [json : BOOLEAN, noTemplate : BOOLEAN, template : { "", "other.html" }]

RenderInit ==
    /\ HandlerClass = MemberNames
    /\ checker = Checker(<< >>)
    /\ predicate = RegisteredPredicate(<< >>)
    /\ HttpIdle
    /\ ParamIdle
    /\ SessIdle
    /\ SockIdle
    /\ InitIdle
    /\ fpc = "ready"
    /\ fin \in [response : RenderResponses, req : RenderRequests,
                 userResolved : BOOLEAN, renderThrows : BOOLEAN]
    /\ fout = NoCall

\* await this.renderBody()
CallRenderBody ==
    /\ fpc = "ready"
    /\ fout' = renderBody(fin.response, fin.req, fin.userResolved,
                          fin.renderThrows)
    /\ fpc' = "done"
    /\ UNCHANGED << httpVars, paramVars, sessVars, sockVars, initVars, fin >>

RenderNext == CallRenderBody

SpecRender == RenderInit /\ [][RenderNext]_vars

\* the request asks for data, or a redirect is pending, or templating is
\* switched off, or no template was chosen
WantsData(r, req) ==
    req.json \/ r.redirect # "" \/ req.noTemplate \/ r.template = ""

\* what renderBody does to a response without a type of its own: the body
\* becomes JSON in the cases of WantsData and otherwise the template is
\* rendered, the one of the query when it names one
RendersAsStated ==
    IF WantsData(fin.response, fin.req)
    THEN /\ fout.response.body = "json"
         /\ fout.response.type = "application/json"
         /\ fout.rendered = ""
    ELSE /\ fout.rendered = IF fin.req.template # "" THEN fin.req.template
                            ELSE fin.response.template
         /\ ~fout.threw => fout.response.body = "html"

MaxInputLen == 2

MaxLiterals == 2

\* characters of the strings handed to the types
InputAlphabet == { "0", "1", "2", "5", "-", ".", "x", "y" }

\* 2^53 - 1 and 2^53 in decimal
SafeInput == Str(MAX_SAFE_INTEGER)

UnsafeInput == Str(SubSeq(MAX_SAFE_INTEGER, 1, Len(MAX_SAFE_INTEGER) - 1) \o << "2" >>)

\* values a request can carry in a field: strings, and from a JSON body
\* numbers and booleans; undefined when the field is missing
TypeInputs ==
    { Str(chars) : chars \in SeqsUpTo(InputAlphabet, MaxInputLen) }
        \cup { SafeInput, UnsafeInput, Str(Infinity), Undefined,
               Num(0), Num(2), Num(5), Bool(TRUE), Bool(FALSE) }

\* the entries of Types that take no argument and are modelled
ScalarTypes == { "Int", "UnsignedInt", "PositiveInt", "Float", "Boolean" }

\* literals of the ranges
RangeLiterals == { Num(1), Num(2), Str(<< "x" >>), Str(<< "2" >>) }

\* Range([1, 2, 'x'])
ExampleRange == ArrayRange(<< Num(1), Num(2), Str(<< "x" >>) >>)

Ranges ==
    { ArrayRange(items) : items \in SeqsUpTo(RangeLiterals, MaxLiterals) }
        \cup { ExampleRange }
        \cup { ObjectRange(keys) : keys \in SUBSET { Str(<< "x" >>), Str(<< "2" >>) } }

NoRange == ArrayRange(<< >>)

\* a type, one of its two functions, and the input
TypeCalls ==
    [type : ScalarTypes, range : { NoRange }, fn : { "validate", "convert" },
     v : TypeInputs]
        \cup [type : { "Range" }, range : Ranges, fn : { "validate", "convert" },
               v : TypeInputs]

TypesInit ==
    /\ HandlerClass = MemberNames
    /\ checker = Checker(<< >>)
    /\ predicate = RegisteredPredicate(<< >>)
    /\ HttpIdle
    /\ ParamIdle
    /\ SessIdle
    /\ SockIdle
    /\ InitIdle
    /\ fpc = "ready"
    /\ fin \in { c \in TypeCalls :
                    c.fn = "validate" /\ c.type # "Range"
                        => Types(c.type).validate # "none" }
    /\ fout = NoCall

\* Types.X[1](v), Types.Range(range)[1](v)
CallValidate ==
    /\ fpc = "ready"
    /\ fin.fn = "validate"
    /\ fout' = [valid |-> IF fin.type = "Range"
                          THEN RangeValidate(fin.range, fin.v)
                          ELSE Validate(Types(fin.type).validate, fin.v),
                value |-> Undefined]
    /\ fpc' = "done"
    /\ UNCHANGED << httpVars, paramVars, sessVars, sockVars, initVars, fin >>

\* Types.X[0](v), Types.Range(range)[0](v)
CallConvert ==
    /\ fpc = "ready"
    /\ fin.fn = "convert"
    /\ fout' = [valid |-> FALSE,
                value |-> IF fin.type = "Range"
                          THEN RangeConvert(fin.range, fin.v)
                          ELSE Convert(Types(fin.type).convert, fin.v)]
    /\ fpc' = "done"
    /\ UNCHANGED << httpVars, paramVars, sessVars, sockVars, initVars, fin >>

TypesNext == CallValidate \/ CallConvert

SpecTypes == TypesInit /\ [][TypesNext]_vars

Validated(type) == fpc = "done" /\ fin.fn = "validate" /\ fin.type = type

Converted(type) == fpc = "done" /\ fin.fn = "convert" /\ fin.type = type

\* the integer a string of an optional minus sign and at most nine digits
\* denotes, NaN for a string that does not start so; numbers denote
\* themselves
IntegerParse(v) ==
    IF v.t = "number" THEN v
    ELSE IF v.t # "string" \/ v.s = << >> THEN NaN
    ELSE LET neg == v.s[1] = "-"
             body == IF v.s[1] \in { "-", "+" } THEN Tail(v.s) ELSE v.s
             len == IF \E i \in 1..Len(body) : ~IsDigit(body[i])
                    THEN (CHOOSE i \in 1..Len(body) :
                              /\ ~IsDigit(body[i])
                              /\ \A j \in 1..(i - 1) : IsDigit(body[j])) - 1
                    ELSE Len(body)
             Value[k \in 0..len] ==
                 IF k = 0 THEN 0 ELSE Value[k - 1] * 10 + DigitValue(body[k])
         IN  IF len = 0 THEN NaN
             ELSE IF len > 9 THEN parseInt(v)
             ELSE Num(IF neg THEN 0 - Value[len] ELSE Value[len])

\* C27: PositiveInt.validate(v) is true exactly when the base-10 integer
\* parse of v is greater than zero, and PositiveInt.convert(v) is that
\* integer ("5" is accepted and becomes 5, "0" and "-1" are rejected);
\* Boolean.convert(v) is false for undefined and every falsy v and true
\* for every truthy v.
C27_PositiveIntBoolean ==
    /\ Validated("PositiveInt") =>
          /\ fout.valid <=> (IntegerParse(fin.v).t \in { "number", "double" }
                               /\ IntegerParse(fin.v).n > 0)
          /\ fin.v = Str(<< "5" >>) => fout.valid
          /\ fin.v \in { Str(<< "0" >>), Str(<< "-", "1" >>) } => ~fout.valid
    /\ Converted("PositiveInt") =>
          /\ fout.value = IntegerParse(fin.v)
          /\ fin.v = Str(<< "5" >>) => fout.value = Num(5)
    /\ Converted("Boolean") =>
          /\ fout.value \in { Bool(TRUE), Bool(FALSE) }
          /\ fout.value = Bool(FALSE) <=>
                 fin.v \in { Undefined, Num(0), Bool(FALSE), Str(<< >>) }

C27_Witness ==
    /\ Validated("PositiveInt")
    /\ fin.v = Str(<< "-", "1" >>)
    /\ ~fout.valid

\* v equals the string literal at index i, or its integer parse equals
\* the numeric literal there
MatchesString(items, i, v) == items[i].t = "string" /\ items[i] = v

MatchesNumber(items, i, v) == items[i].t = "number" /\ items[i] = IntegerParse(v)

RangeValidatesAsStated ==
    Validated("Range") =>
        IF fin.range.array
        THEN fout.valid <=>
                \E i \in 1..Len(fin.range.items) :
                    \/ MatchesString(fin.range.items, i, fin.v)
                    \/ MatchesNumber(fin.range.items, i, fin.v)
        ELSE fout.valid <=> fin.v \in fin.range.keys

RangeExamples ==
    /\ (Validated("Range") /\ fin.range = ExampleRange) =>
          /\ fin.v = Str(<< "2" >>) => fout.valid
          /\ fin.v = Str(<< "y" >>) => ~fout.valid
    /\ (Converted("Range") /\ fin.range = ExampleRange) =>
          (fin.v = Str(<< "2" >>) => fout.value = Num(2))

\* C28: for a Range built from a list of literals, validate(v) is true
\* exactly when v equals a string literal or its integer parse equals a
\* numeric literal, and convert(v) is the integer parse when v matched a
\* numeric literal and v otherwise; for a Range built from a mapping,
\* validate(v) is true exactly when v is one of its keys.
C28_Range ==
    /\ RangeValidatesAsStated
    /\ RangeExamples
    /\ (Converted("Range") /\ fin.range.array) =>
          fout.value =
              IF \E i \in 1..Len(fin.range.items) :
                     MatchesNumber(fin.range.items, i, fin.v)
              THEN IntegerParse(fin.v) ELSE fin.v

\* C28 (amended): as above, but convert(v) is the integer parse only when
\* the numeric literal is met before any string literal equal to v: the
\* first literal of the list that v matches decides.
C28_RangeFirstMatch ==
    /\ RangeValidatesAsStated
    /\ RangeExamples
    /\ (Converted("Range") /\ fin.range.array) =>
          fout.value =
              IF \E i \in 1..Len(fin.range.items) :
                     /\ MatchesNumber(fin.range.items, i, fin.v)
                     /\ \A j \in 1..(i - 1) :
                            ~MatchesString(fin.range.items, j, fin.v)
              THEN IntegerParse(fin.v) ELSE fin.v

C28_Witness ==
    /\ Converted("Range")
    /\ fin.range = ExampleRange
    /\ fin.v = Str(<< "2", "x" >>)
    /\ fout.value = Num(2)

\* C30: Int, UnsignedInt and PositiveInt accept an input only if its
\* integer parse is a safe integer, Float accepts exactly the inputs whose
\* parse is a finite number, zero included, and an input that parses to
\* NaN is rejected by all four.
C30_NumericTypes ==
    /\ \A type \in { "Int", "UnsignedInt", "PositiveInt" } :
          (Validated(type) /\ fout.valid) =>
              /\ ~isNaN(parseInt(fin.v))
              /\ isSafeInteger(parseInt(fin.v))
    /\ Validated("Float") =>
          (fout.valid <=> (~isNaN(parseFloat(fin.v)) /\ isFinite(parseFloat(fin.v))))

(***************************************************************************)
(* handle() under fair scheduling                                          *)
(***************************************************************************)
\* what handle() awaits next: every hook and lookup settles, and the event
\* loop then resumes handle(), so a step that stays possible is taken
HandleStep ==
    \/ RunInit
    \/ RunGuard
    \/ ResolveMethod
    \/ Run_prepare
    \/ RunPrepare
    \/ RunMethod
    \/ RunOperation
    \/ RunCleanup
    \/ RunFinish
    \/ RunOnerror

\* one handler class registered with a guard of at most one fragment
LiveInit ==
    /\ HandlerClass \in SUBSET MemberNames
    /\ \E frags \in ConnFragmentLists :
          /\ checker = Checker(frags)
          /\ predicate = RegisteredPredicate(frags)
    /\ HttpIdle
    /\ ParamIdle
    /\ SessIdle
    /\ SockIdle
    /\ InitIdle
    /\ FnIdle

SpecLive == LiveInit /\ [][Next]_vars /\ WF_vars(HandleStep)

\* finish was entered, from handle() itself or from onerror
FinishEntered == Occurs("finish") \/ Occurs("onerror.finish")

\* handle() returns for every dispatched request
DispatchTerminates == (pc = "init") ~> (pc = "done")

\* C29: every dispatched request runs to completion: handle() eventually
\* returns having entered finish, as its last step or through its single
\* onerror call.
C29_DispatchReachesFinish ==
    (pc = "init") ~> (pc = "done" /\ onerrorCalls <= 1 /\ FinishEntered)

(***************************************************************************)
(* The binder's calls of validators and converters (under SpecParam)       *)
(***************************************************************************)
\* C31: in every call of a decorated method, the converter of a descriptor
\* is called only after its validator (if it has one) was called on the
\* same raw value and returned true, a validator is not called after the
\* converter, and a descriptor without converter whose value is bound
\* contributes the raw value unchanged.
C31_ValidateBeforeConvert ==
    lastCall.outcome # "none" =>
        LET arglist == __param[lastCall.key]
        IN  /\ \A i \in DOMAIN lastCall.calls :
                   LET calls == lastCall.calls[i]
                   IN  /\ \A k \in DOMAIN calls :
                              calls[k].fn = "convert" =>
                                  /\ calls[k].arg = RawOfLastCall(i)
                                  /\ k = Len(calls)
                                  /\ arglist[i].validate # "none" =>
                                         \E j \in 1..(k - 1) :
                                             /\ calls[j].fn = "validate"
                                             /\ calls[j].arg = calls[k].arg
                                             /\ calls[j].valid
                       /\ \A k \in DOMAIN calls :
                              (calls[k].fn = "validate" /\ ~calls[k].valid) =>
                                  /\ k = Len(calls)
                                  /\ i = Len(lastCall.calls)
                                  /\ lastCall.outcome = "ValidationError"
            /\ lastCall.outcome = "called" =>
                   \A i \in DOMAIN arglist :
                       /\ arglist[i].convert = "none"
                       /\ ~(arglist[i].isOptional /\ Falsy(RawOfLastCall(i)))
                       => lastCall.args[i] = RawOfLastCall(i)

\* get(domainId, page) was called for ?page=2: the validator of page ran on
\* "2" and then its converter; domainId, which has no converter, was
\* passed as it was read
C31_Witness ==
    /\ __param[K_get] = << DomainIdDescriptor, D_page >>
    /\ lastCall.key = K_get
    /\ lastCall.outcome = "called"
    /\ lastCall.calls =
           << << >>,
              << [fn |-> "validate", arg |-> Str(<< "2" >>), valid |-> TRUE],
                 [fn |-> "convert", arg |-> Str(<< "2" >>), valid |-> TRUE] >> >>
    /\ lastCall.args = << Str(<< "s", "y", "s", "t", "e", "m" >>), Num(2) >>

(***************************************************************************)
(* The user the steps after init run with (under SpecInit)                 *)
(***************************************************************************)
\* the steps that run on behalf of a user
UserSteps == { "guard", "_prepare", "prepare", "method", "operation" }

\* C32: once the guard, a prepare hook or a method body of a request has
\* run, this.user is resolved in the domain of the request: it is the user
\* of the session, or, when that one was not found, the anonymous user,
\* and then the session has uid 0 and the scope of all permissions.
C32_UserResolved ==
    (\E i \in 1..Len(trace) : trace[i] \in UserSteps) =>
        /\ user = "resolved"
        /\ ipc = "resolved"
        /\ iuser.domain = "request"
        /\ iuser.who \in { "session", "anonymous" }
        /\ iuser.who = "anonymous" <=> IsReset(isession)

\* the user of a stored session was not found, and a method body ran for
\* the anonymous user
C32_Witness ==
    /\ isession = "loadedReset"
    /\ iuser = [who |-> "anonymous", domain |-> "request"]
    /\ \E i \in 1..Len(trace) : trace[i] = "method"
    /\ \E i \in 1..Len(trace) : trace[i] = "guard"

(***************************************************************************)
(* init's concurrent lookups against the session store                     *)
(***************************************************************************)
\* a session of user 2 the store holds when the behaviour starts, and whose
\* id the browser presents as its sid cookie
LiveSession ==
    [EmptySession EXCEPT !._id = << "sid", 1 >>, !.uid = 2, !.expireAt = 2,
                         !.createIp = "10.0.0.1", !.updateIp = "10.0.0.1"]

\* the store holds that session and no request was served yet; cookies is
\* what the browser may hold
StoredSessionInit(cookies) ==
    /\ HandlerClass = {}
    /\ checker = EmptyGuard
    /\ predicate = "none"
    /\ HttpIdle
    /\ ParamIdle
    /\ SockIdle
    /\ InitIdle
    /\ FnIdle
    /\ tokens = { LiveSession }
    /\ now = 0
    /\ idsAssigned = 1
    /\ jar \in cookies
    /\ spc = "idle"
    /\ sreq = NoRequest
    /\ session = EmptySession
    /\ resolved = EmptySession
    /\ sbody = "{}"
    /\ csrfToken = NoToken
    /\ csrfCache = {}
    /\ csrfIssued = {}
    /\ last = NoSummary
    /\ prev = NoSummary
    /\ sreqCount = 0

RaceInit == StoredSessionInit({ [NoCookie EXCEPT !.sid = LiveSession._id] })

\* what the session model leaves alone while the lookups settle
raceFrame ==
    << tokens, now, idsAssigned, jar, csrfToken, csrfCache, csrfIssued, last,
       prev, sreqCount >>

\* init is entered: domain.get(domainId), this.getSession() and
\* this.getBdoc() are started and Promise.all awaits them
init_PromiseAll ==
    /\ spc = "getSession"
    /\ lookups' = [l \in LookupNames |-> "pending"]
    /\ spc' = "awaitAll"
    /\ UNCHANGED << httpVars, paramVars, sockVars, fnVars, raceFrame, sreq,
                    session, resolved, sbody, ipc, idomain, isession, iuser >>

\* what a lookup that settles resumes: nothing unless init still awaits
\* Promise.all. A rejection, and a domain that was not found, throw into
\* the catch of handle: onerror sets the body to the error and awaits
\* finish. Otherwise init goes on to resolve the user.
AfterRace(settled) ==
    IF spc = "awaitAll" /\ PromiseAll(settled) = "rejected"
    THEN /\ sbody' = onerrorResponse(NewResponse, "BlacklistedError").body
         /\ spc' = "finish"
    ELSE IF spc = "awaitAll" /\ PromiseAll(settled) = "fulfilled"
    THEN IF settled.domain = "null"
         THEN /\ sbody' = onerrorResponse(NewResponse, "NotFoundError").body
              /\ spc' = "finish"
         ELSE spc' = "init" /\ UNCHANGED sbody
    ELSE UNCHANGED << spc, sbody >>

\* the handler of the request is still at work: a lookup that settles
\* later has nothing left to act on
InFlight == spc \in { "awaitAll", "finish" }

\* domain.get(domainId) settles
race_domain_get(found) ==
    /\ InFlight
    /\ lookups.domain = "pending"
    /\ LET settled == [lookups EXCEPT !.domain = IF found THEN "doc" ELSE "null"]
       IN  lookups' = settled /\ AfterRace(settled)
    /\ UNCHANGED << httpVars, paramVars, sockVars, fnVars, raceFrame, sreq,
                    session, resolved, ipc, idomain, isession, iuser >>

\* this.getSession() settles, before or after Promise.all has rejected:
\* this.session = await token.get(sid, ...); if (!this.session)
\* this.session = { uid: 0 }
race_getSession ==
    /\ InFlight
    /\ lookups.session = "pending"
    /\ session' = getSession(tokens, sreq.sid)
    /\ resolved' = session'
    /\ sreq' = [sreq EXCEPT !.idsAtGet = IdsOf(tokens)]
    /\ LET settled == [lookups EXCEPT !.session = "done"]
       IN  lookups' = settled /\ AfterRace(settled)
    /\ UNCHANGED << httpVars, paramVars, sockVars, fnVars, raceFrame, ipc,
                    idomain, isession, iuser >>

\* this.getBdoc() settles
race_getBdoc(blacklisted) ==
    /\ InFlight
    /\ lookups.bdoc = "pending"
    /\ LET settled == [lookups EXCEPT
                          !.bdoc = IF blacklisted THEN "rejected" ELSE "clear"]
       IN  lookups' = settled /\ AfterRace(settled)
    /\ UNCHANGED << httpVars, paramVars, sockVars, fnVars, raceFrame, sreq,
                    session, resolved, ipc, idomain, isession, iuser >>

\* requests of a browser that holds the sid of a stored session; finish
\* (SessionFinish) runs saveCookie on this.session as it is at that moment
RaceNext ==
    \/ \E r \in Requesters : NewHandler(r.ip, r.ua)
    \/ init_PromiseAll
    \/ \E found \in BOOLEAN : race_domain_get(found)
    \/ race_getSession
    \/ \E blacklisted \in BOOLEAN : race_getBdoc(blacklisted)
    \/ \E userFound \in BOOLEAN, random \in RandomKeys :
          ResolveUser(userFound, random)
    \/ \E eff \in SessionEffects, protected \in BOOLEAN, sent \in SentTokens :
          RunSessionMethod(eff, protected, sent)
    \/ SessionFinish
    \/ Tick

SpecRace == RaceInit /\ [][RaceNext]_vars

\* C33: a request that arrived with the sid of a session the store holds,
\* and still holds when the request is finished, has created no record,
\* and what it wrote is an update of that record with the sid cookie set
\* to the same id, in whatever order the lookups of init settled.
C33_LiveSessionKept ==
    (last.n > 0 /\ last.arrived # NoId /\ last.arrived \in last.idsBefore) =>
        /\ last.created = {}
        /\ last.call.op # "add"
        /\ last.call.op = "update" =>
               /\ last.call.id = last.arrived
               /\ last.cookie.sid = last.arrived

(***************************************************************************)
(* requireCsrfToken against the token init issued                          *)
(***************************************************************************)
\* a browser with the sid of the stored session, or without cookie
CsrfInit ==
    StoredSessionInit({ NoCookie, [NoCookie EXCEPT !.sid = LiveSession._id] })

\* what a client may submit as csrfToken: nothing, or a token of a session
\* id, of a random key, or of no id
SubmittedTokens ==
    { NoToken }
        \cup { hash("csrf_token", id) : id \in TokenIds \cup RandomKeys \cup { NoId } }

\* a method declared with @requireCsrfToken is dispatched with
\* args.csrfToken = sent:
\* if (this.getCsrfToken(this.session._id) !== this.args.csrfToken)
\*     throw new CsrfTokenError(this.args.csrfToken);
\* return await originalMethod.call(this, ...args)
checkCsrfToken(sent) ==
    /\ spc = "method"
    /\ LET res == getCsrfToken(csrfCache, session._id)
           refused == res.token # sent
       IN  /\ csrfCache' = res.cache
           /\ csrfIssued' = csrfIssued \cup { << session._id, res.token, res.hit >> }
           /\ fin' = [fn |-> "checkCsrfToken", sent |-> sent,
                      issued |-> csrfToken, id |-> session._id]
           /\ fout' = [refused |-> refused, invoked |-> ~refused]
           /\ sbody' = IF refused
                       THEN onerrorResponse(NewResponse, "Error").body
                       ELSE sbody
    /\ fpc' = "done"
    /\ spc' = "finish"
    /\ UNCHANGED << httpVars, paramVars, sockVars, initVars, tokens, now,
                    idsAssigned, jar, sreq, session, resolved, csrfToken,
                    last, prev, sreqCount >>

CsrfNext ==
    \/ \E r \in Requesters : NewHandler(r.ip, r.ua)
    \/ RunGetSession
    \/ \E userFound \in BOOLEAN, random \in RandomKeys :
          ResolveUser(userFound, random)
    \/ \E sent \in SubmittedTokens : checkCsrfToken(sent)
    \/ SessionFinish
    \/ Tick

SpecCsrf == CsrfInit /\ [][CsrfNext]_vars

CsrfChecked == fpc = "done" /\ fin.fn = "checkCsrfToken"

\* C34: when a method behind requireCsrfToken was dispatched, a submitted
\* token equal to the token init issued to the handler is not refused,
\* whether or not the session has an id, and a submitted token that
\* differs from it is refused with CsrfTokenError and the method is not
\* invoked.
C34_CsrfRoundTrip ==
    CsrfChecked =>
        /\ fin.sent = fin.issued => (~fout.refused /\ fout.invoked)
        /\ fin.sent # fin.issued => (fout.refused /\ ~fout.invoked)

\* the same for the sessions that have an id
CsrfRoundTripWithId ==
    (CsrfChecked /\ fin.id # NoId) =>
        /\ fin.sent = fin.issued => (~fout.refused /\ fout.invoked)
        /\ fin.sent # fin.issued => (fout.refused /\ ~fout.invoked)

(***************************************************************************)
(* The hooks of a connection and its handshake (under SpecSocket)          *)
(***************************************************************************)
ConnHooks == { "message", "cleanup", "finish" }

\* message, cleanup and finish run only after the listeners were
\* registered, and never on a connection whose handshake failed
HooksOnlyAfterHandshake ==
    /\ \A k \in 1..Len(clog) :
          clog[k] \in ConnHooks => \E l \in At("listen") : l < k
    /\ craised # NoError =>
          /\ \A k \in 1..Len(clog) : clog[k] \notin ConnHooks
          /\ listeners \cap { "data", "close" } = {}
          /\ messages = << >>

\* C35: the message, cleanup and finish hooks of a connection run only
\* after its handshake has completed; a connection whose init, guard or
\* prepare failed never runs them, and once error recovery has run for it
\* the connection is closed.
C35_HooksAfterHandshake ==
    /\ HooksOnlyAfterHandshake
    /\ (craised # NoError /\ cpc \in { "failed", "stuck" }) => ~connOpen

(***************************************************************************)
(* The catch-all method (under Spec)                                       *)
(***************************************************************************)
\* the request is not a POST and the handler class has all but no method
\* named after the verb
CatchAllCase ==
    /\ pc # "idle"
    /\ method # N_post
    /\ method \notin HandlerClass
    /\ N_all \in HandlerClass

\* C36: for a request that is not a POST, on a handler class that has all
\* but no method named after the verb, method resolution raises no
\* MethodNotAllowedError, and handle() calls neither all nor any other
\* method body: after prepare comes cleanup.
C36_CatchAllNeverInvoked ==
    CatchAllCase =>
        /\ raised.error # "MethodNotAllowedError"
        /\ raised.step # "resolve"
        /\ \A i \in 1..Len(invoked) : invoked[i] \notin { N_all, method }
        /\ \A i \in 1..Len(trace) : trace[i] \notin { "method", "operation" }
        /\ \A i \in 1..(Len(trace) - 1) :
              trace[i] = "prepare" => trace[i + 1] \in { "cleanup", "finish", "onerror" }

\* a GET on a class with prepare, all and cleanup has ended: prepare and
\* cleanup were called, and nothing between them
C36_Witness ==
    /\ CatchAllCase
    /\ pc = "done"
    /\ method = N_get
    /\ raised = NotRaised
    /\ invoked = << N_prepare, N_cleanup >>
    /\ trace = << "init", "guard", "prepare", "cleanup", "finish" >>

(***************************************************************************)
(* The domainId of a request: handle(), init and the binder                *)
(***************************************************************************)
SystemDomain == Str(<< "s", "y", "s", "t", "e", "m" >>)

\* what a request may carry as domainId in its route parameters, its query
\* string and its body: nothing, the id of a domain, or the empty string
DomainIdValues == { Undefined, Str(<< "a" >>), Str(<< "b" >>), Str(<< >>) }

DomainRequests ==
    { [params |-> [NoFields EXCEPT !["domainId"] = p],
       query |-> [NoFields EXCEPT !["domainId"] = q],
       body |-> [NoFields EXCEPT !["domainId"] = b]] :
          p \in DomainIdValues, q \in DomainIdValues, b \in DomainIdValues }

NoResolution ==
    [domain |-> Undefined, user |-> Undefined, outcome |-> "none", args |-> << >>]

DomainIdInit ==
    /\ HandlerClass = {}
    /\ checker = EmptyGuard
    /\ predicate = "none"
    /\ HttpIdle
    /\ ParamIdle
    /\ SessIdle
    /\ SockIdle
    /\ InitIdle
    /\ FnIdle

\* const args = { domainId: 'system', ... }; const h = new
\* HandlerClass(ctx); h.args = args; h.domainId = args.domainId
NewRequest(req) ==
    /\ fpc = "idle"
    /\ fin' = [req |-> req, args |-> MergedArgs(req),
               domainId |-> MergedArgs(req)["domainId"]]
    /\ fout' = NoResolution
    /\ fpc' = "init"
    /\ UNCHANGED << httpVars, paramVars, sessVars, sockVars, initVars >>

\* await h.init(args): init({ domainId }) looks the domain up with
\* args.domainId; when it exists the user is looked up in it, and when it
\* does not, this.args.domainId becomes 'system', the user is looked up in
\* the system domain and NotFoundError is thrown. fout.domain and
\* fout.user are the domain ids the two lookups were made with.
InitResolves(found) ==
    /\ fpc = "init"
    /\ LET domainId == fin.args["domainId"]
       IN  IF found
           THEN /\ fout' = [fout EXCEPT !.domain = domainId, !.user = domainId]
                /\ fpc' = "method"
                /\ UNCHANGED fin
           ELSE /\ fin' = [fin EXCEPT !.args["domainId"] = SystemDomain]
                /\ fout' = [fout EXCEPT !.domain = domainId,
                                        !.user = SystemDomain,
                                        !.outcome = "NotFoundError"]
                /\ fpc' = "failed"
    /\ UNCHANGED << httpVars, paramVars, sessVars, sockVars, initVars >>

\* a method decorated with decl is called with args: the binder passes
\* domainId first, read from { ...this.request.params, domainId:
\* this.domainId }
CallBound(decl) ==
    /\ fpc = "method"
    /\ LET b == Bind(<< DomainIdDescriptor, decl >>, fin.req)
       IN  fout' = [fout EXCEPT !.outcome = b.outcome, !.args = b.args]
    /\ fpc' = "done"
    /\ UNCHANGED << httpVars, paramVars, sessVars, sockVars, initVars, fin >>

DomainIdNext ==
    \/ \E req \in DomainRequests : NewRequest(req)
    \/ \E found \in BOOLEAN : InitResolves(found)
    \/ \E decl \in Declarations : CallBound(decl)

SpecDomainId == DomainIdInit /\ [][DomainIdNext]_vars

\* the domainId of the request by precedence: body, query string, route
\* parameters, 'system'
ByPrecedence(req) ==
    IF req.body["domainId"] # Undefined THEN req.body["domainId"]
    ELSE IF req.query["domainId"] # Undefined THEN req.query["domainId"]
    ELSE IF req.params["domainId"] # Undefined THEN req.params["domainId"]
    ELSE SystemDomain

\* h.domainId is that value, init looks the domain up with it, and a bound
\* method receives it as its first argument
DomainIdSingle ==
    /\ fpc # "idle" => fin.domainId = ByPrecedence(fin.req)
    /\ fpc \in { "method", "done", "failed" } =>
          fout.domain = ByPrecedence(fin.req)
    /\ (fpc = "done" /\ fout.outcome = "called") =>
          fout.args[1] = ByPrecedence(fin.req)

\* C37: the handler's domainId is the value of the merged arguments, by
\* precedence body, query string, route parameters, 'system'; init looks
\* the domain and the user up with that value; and every bound method
\* receives it as its first argument, whatever domainId the route
\* parameters hold.
C37_DomainId ==
    /\ DomainIdSingle
    /\ fpc \in { "method", "done", "failed" } =>
          fout.user = ByPrecedence(fin.req)

\* C37 (amended): as above, but init looks the user up with that value
\* only when the domain exists; when it does not, the user is looked up in
\* the system domain, NotFoundError is raised and no method is bound.
C37_DomainIdWhenFound ==
    /\ DomainIdSingle
    /\ fpc \in { "method", "done" } => fout.user = ByPrecedence(fin.req)
    /\ fpc = "failed" =>
          /\ fout.user = SystemDomain
          /\ fout.outcome = "NotFoundError"
          /\ fout.args = << >>

\* the route names domain a and the body domain b: init resolved b and
\* the bound method received b first
C37_Witness ==
    /\ fpc = "done"
    /\ fin.req.params["domainId"] = Str(<< "a" >>)
    /\ fin.req.query["domainId"] = Undefined
    /\ fin.req.body["domainId"] = Str(<< "b" >>)
    /\ fout.domain = Str(<< "b" >>)
    /\ fout.user = Str(<< "b" >>)
    /\ fout.outcome = "called"
    /\ fout.args[1] = Str(<< "b" >>)
====
